---- MODULE Spec2Model ----
(***************************************************************************)
(* Tenant routing and lazy provisioning of the contact service             *)
(* (contact-api/app/database/db.py, daos.py, routers/routes.py) together   *)
(* with the recreate-tables endpoint and the session dependency of the     *)
(* events service (events-api/app/routers/routes.py, database/db.py).      *)
(*                                                                         *)
(* Every request is handled by a worker thread of the server's thread      *)
(* pool.  The module-level dictionaries of db.py are shared by all         *)
(* workers and are not protected by a lock, so one step of a worker is one *)
(* statement group of the handler between two points at which the          *)
(* interpreter can switch threads (every database round trip is such a     *)
(* point).                                                                 *)
(***************************************************************************)
EXTENDS Integers, Sequences, FiniteSets, TLC

\* ------------------------------------------------------------------ bounds
\* Number of requests the server accepts in one behaviour.
MaxRequests == 3

\* Worker threads handling requests concurrently.
Workers == {"w1", "w2"}

\* Values of the Ts-Tenant-Id header that clients send.  A header value is a
\* sequence of characters; "-" is not a word character.
RawIds == { <<"a">>, <<"b", "_", "1">>, <<"a", "-">>, <<>> }

\* Characters matched by \w (letters, digits, underscore).
WordChars == {"a", "b", "d", "1", "_"}

\* ------------------------------------------------------- pure functions
\* Variant: the pattern without its anchors, re.search(r"\w+", tenant_id).
sanitize_tenant_id_unanchored(id) ==
    \E i \in 1..Len(id) : id[i] \in WordChars

\* routes.py sanitize_tenant_id: re.match(r"^\w+$", tenant_id).
\* TRUE when the identifier is accepted, FALSE when HTTP 422 is raised.
sanitize_tenant_id(id) ==
    /\ Len(id) >= 1
    /\ \A i \in 1..Len(id) : id[i] \in WordChars

\* db.py line 30 / daos.py line 137: tenant_db_name = tenant_id + "db".
tenant_db_name(id) == id \o <<"d", "b">>

\* Every database name a header value can map to.
DbNames == { tenant_db_name(id) : id \in RawIds }

\* Variant: the cache is never consulted, every call takes the slow path.
NotCached_always(cache, name) == TRUE

\* db.py line 32: `tenant_db_name not in tenant_sessions_postgres`.
NotCached(cache, name) == name \notin DOMAIN cache

\* Variant: the guard of line 69 is missing, creation runs on every slow path.
NotInitialized_always(inited, name) == TRUE

\* db.py line 69: `tenant_db_name not in initialized_tenants`.
NotInitialized(inited, name) == name \notin inited

\* Variant: the dictionary is rebound to one holding only the new entry.
StoreFactory_rebind(cache, name, factory) ==
    [n \in {name} |-> factory]

\* db.py line 66: tenant_sessions_postgres[tenant_db_name] = session.
StoreFactory(cache, name, factory) ==
    [n \in (DOMAIN cache) \cup {name} |-> IF n = name THEN factory ELSE cache[n]]

\* Variant: the session is closed but the entry is left in the dictionary.
EvictFactory_keeps(cache, name) == cache

\* daos.py line 143: del tenant_sessions_postgres[tenant_db_name].
EvictFactory(cache, name) ==
    [n \in (DOMAIN cache) \ {name} |-> cache[n]]

\* Variant: db.close() after the yield without try/finally.
ClosesOnExit_return_only(outcome) == outcome = "ok"

\* db.py lines 81-84 (contact) and 175-178 (events): try / yield / finally
\* db.close().  TRUE when the provider closes the session for this way of
\* leaving the handler.
ClosesOnExit(outcome) == outcome \in {"ok", "business", "unexpected"}

\* The ways a route handler can end: normal return, HTTPException raised by
\* the service (404, 409, ...), any other exception.
Outcomes == {"ok", "business", "unexpected"}

StatusOf(outcome) ==
    CASE outcome = "ok" -> 200
      [] outcome = "business" -> 404
      [] OTHER -> 500

\* ------------------------------------------------------------------ state
VARIABLES
    tenant_sessions_postgres, \* db.py: database name -> sessionmaker (factory)
    initialized_tenants,      \* db.py: set of database names
    db_exists,                \* server: database name -> row in pg_database
    schema_exists,            \* tenant database: schema namespace present
    tables_exist,             \* tenant database: tables of Base.metadata present
    has_rows,                 \* tenant database: some contact row is stored
    ev_tables_exist,          \* events database: tables present (created by
                              \* create_tables, not at start-up)
    ev_has_rows,              \* events database: some row is stored
    pc,                       \* worker -> position in the handler
    req,                      \* worker -> the request being handled
    session,                  \* worker -> the Session yielded by get_db
    result,                   \* worker -> HTTP status of the response (0: none yet)
    obs,                      \* worker -> what this request has done so far
    engines_created,          \* database name -> factories constructed by get_db
    evictions,                \* database name -> cache entries deleted by recreate
    ddl_runs,                 \* database name -> CreateSchema statements run by get_db
    tables_created,           \* database name -> create_all calls completed by get_db
    overlapped,               \* two requests have been in flight at the same time
    requests_started,
    contacts,                 \* one tenant's contacts table: contact_id -> row
    contact_last,             \* the last call of ContactLogic and its answer
    users,                    \* events database, users table: id -> row
    events,                   \* events table: id -> row
    agendas,                  \* agendas table: id -> row
    agenda_items,             \* agenda_items table: id -> row
    ev_last                   \* the last call of the events service and its answer

tenant_vars == << tenant_sessions_postgres, initialized_tenants, db_exists,
           schema_exists, tables_exist, has_rows, ev_tables_exist, ev_has_rows,
           pc, req, session, result, obs, engines_created, evictions,
           ddl_runs, tables_created, overlapped, requests_started >>
contact_rows == << contacts, contact_last >>
events_rows == << users, events, agendas, agenda_items, ev_last >>
domain_rows == << contact_rows, events_rows >>
vars == << tenant_vars, contact_rows, events_rows >>

registry == << tenant_sessions_postgres, initialized_tenants >>
storage == << db_exists, schema_exists, tables_exist, has_rows >>
ev_storage == << ev_tables_exist, ev_has_rows >>
counters == << engines_created, evictions, ddl_runs, tables_created >>

\* The response carries no error: `detail` is the message of an error
\* response and `text` the text of an exception embedded in it.
NoBody == [detail |-> "", text |-> ""]

\* No exception has been raised.
NoError == [type |-> "none", prefix |-> "", tenant_id |-> <<>>, cause |-> ""]

\* Python's None as the value of an optional field.
None == "None"

\* storage_error: where the storage layer raised during the call ("none",
\* "write": in a statement or the commit, "refresh": in db.refresh after the
\* commit).
NoContactCall == [op |-> "none", status |-> 0, email |-> None, phone |-> None,
                  dup_email |-> FALSE, dup_phone |-> FALSE, stored |-> FALSE,
                  storage_error |-> "none"]

\* A request without an Authorization header.
NoHeader == [present |-> FALSE, value |-> << >>]

\* layer: who made the call; authorized: the request carried a header that
\* security.get_user_id accepts; owner: the caller owned the event of the
\* call ("yes"), another user did ("no"), or no such event was stored
\* ("missing"); known: the caller of create_event was a stored user; foreign: how
\* many ids of the reorder request were not items of the event's agenda
\* ("none", "some", "all"); removed: rows deleted along with the row the
\* call named; storage_error: as for a contact call; display_order: the
\* display_order of a request that creates an item (-1: None); user_id,
\* event_id, item_id: the ids the call was made with; patch: the fields of
\* an update request that are not None, with their values; returned: the
\* ids of the events, agendas and items in the response; token: the text
\* of the Authorization header after "Bearer ".
NoEventsCall == [layer |-> "none", authorized |-> FALSE, op |-> "none",
                 status |-> 0, detail |-> "", owner |-> "",
                 known |-> FALSE, foreign |-> "none", removed |-> 0,
                 storage_error |-> "none", display_order |-> -1,
                 user_id |-> "", event_id |-> "", item_id |-> "",
                 patch |-> << >>, returned |-> {}, token |-> ""]

NoRequest == [service |-> "none", op |-> "none", tenant_id |-> <<>>, recreate |-> FALSE]
NoFactory == [db |-> <<>>, serial |-> 0]
NoSession == [factory |-> NoFactory, state |-> "none"]
NoObs == [db_checks |-> 0, create_stmts |-> 0, create_failed |-> FALSE,
          built |-> 0, ddl |-> 0, opened |-> 0, closed |-> 0,
          cached_at_lookup |-> FALSE, init_at_start |-> FALSE, stage |-> "", outcome |-> "",
          error |-> NoError, body |-> NoBody]

Name(p) == tenant_db_name(req[p].tenant_id)

Init ==
    /\ tenant_sessions_postgres = << >>
    /\ initialized_tenants = {}
    /\ db_exists = [n \in DbNames |-> FALSE]
    /\ schema_exists = [n \in DbNames |-> FALSE]
    /\ tables_exist = [n \in DbNames |-> FALSE]
    /\ has_rows = [n \in DbNames |-> FALSE]
    /\ ev_tables_exist = FALSE
    /\ ev_has_rows = FALSE
    /\ pc = [p \in Workers |-> "idle"]
    /\ req = [p \in Workers |-> NoRequest]
    /\ session = [p \in Workers |-> NoSession]
    /\ result = [p \in Workers |-> 0]
    /\ obs = [p \in Workers |-> NoObs]
    /\ engines_created = [n \in DbNames |-> 0]
    /\ evictions = [n \in DbNames |-> 0]
    /\ ddl_runs = [n \in DbNames |-> 0]
    /\ tables_created = [n \in DbNames |-> 0]
    /\ overlapped = FALSE
    /\ requests_started = 0
    /\ contacts = << >>
    /\ contact_last = NoContactCall
    /\ users = << >>
    /\ events = << >>
    /\ agendas = << >>
    /\ agenda_items = << >>
    /\ ev_last = NoEventsCall

\* The response of worker p is fixed: status and body.
Reply(p, status, stage, body) ==
    /\ pc' = [pc EXCEPT ![p] = "done"]
    /\ result' = [result EXCEPT ![p] = status]
    /\ obs' = [obs EXCEPT ![p].stage = stage, ![p].body = body]

\* A worker leaves the handler with raise HTTPException(status, detail), the
\* detail being a literal of the source.
Fail(p, status, stage, detail) ==
    Reply(p, status, stage, [detail |-> detail, text |-> ""])

\* main.py lines 30-36 (both services): an exception that reaches
\* ExceptionHandlingMiddleware is logged and answered with status 500 and the
\* literal detail; str(e) is not part of the response.
ExceptionHandlingMiddleware(cause) ==
    [status |-> 500, body |-> [detail |-> "Internal server error", text |-> ""]]

\* A worker leaves the handler with an exception nothing in the route or the
\* service catches.
Unhandled(p, stage, cause) ==
    LET response == ExceptionHandlingMiddleware(cause) IN
    Reply(p, response.status, stage, response.body)

\* The body that goes with the outcome of a route: none, the literal detail
\* of the service's HTTPException, or the middleware's.
BodyOf(outcome) ==
    CASE outcome = "ok" -> NoBody
      [] outcome = "business" -> [detail |-> "not found", text |-> ""]
      [] OTHER -> ExceptionHandlingMiddleware("Exception").body

Goto(p, label) == pc' = [pc EXCEPT ![p] = label]

\* ------------------------------------------------------ request arrival
\* The server hands a request to a free worker.
Receive(p, r) ==
    /\ pc[p] = "idle"
    /\ requests_started < MaxRequests
    /\ requests_started' = requests_started + 1
    /\ req' = [req EXCEPT ![p] = r]
    /\ session' = [session EXCEPT ![p] = NoSession]
    /\ result' = [result EXCEPT ![p] = 0]
    /\ obs' = [obs EXCEPT ![p] = NoObs]
    /\ overlapped' = (overlapped \/ \E q \in Workers \ {p} : pc[q] # "idle")
    /\ pc' = [pc EXCEPT ![p] =
                IF r.op = "health"
                THEN (IF r.service = "contact" THEN "health" ELSE "ev_health")
                ELSE IF r.service = "contact" THEN "sanitize"
                ELSE IF r.op = "recreate" THEN "ev_recreate" ELSE "ev_open"]
    /\ UNCHANGED << registry, storage, ev_storage, counters >>

\* contact-api routes with Depends(get_tenant_db): list, search, get, create,
\* update, delete of contacts.
ReceiveContact(p) ==
    \E id \in RawIds :
        Receive(p, [service |-> "contact", op |-> "crud", tenant_id |-> id,
                    recreate |-> FALSE])

\* contact-api DELETE /recreate-tables?recreate=<flag>.
ReceiveRecreate(p) ==
    \E id \in RawIds, flag \in BOOLEAN :
        Receive(p, [service |-> "contact", op |-> "recreate", tenant_id |-> id,
                    recreate |-> flag])

\* events-api routes with Depends(get_db).
ReceiveEvents(p) ==
    Receive(p, [service |-> "events", op |-> "crud", tenant_id |-> <<>>,
                recreate |-> FALSE])

\* events-api DELETE /recreate-tables?recreate=<flag>.
ReceiveEventsRecreate(p) ==
    \E flag \in BOOLEAN :
        Receive(p, [service |-> "events", op |-> "recreate", tenant_id |-> <<>>,
                    recreate |-> flag])

\* contact-api GET /health-check: no dependency, no tenant.
ReceiveHealth(p) ==
    Receive(p, [service |-> "contact", op |-> "health", tenant_id |-> <<>>,
                recreate |-> FALSE])

\* events-api GET /health-check.
ReceiveEventsHealth(p) ==
    Receive(p, [service |-> "events", op |-> "health", tenant_id |-> <<>>,
                recreate |-> FALSE])

\* contact-api routes.py lines 40-42: return {"HEALTH": "OK"}.
ContactHealthCheck(p) ==
    /\ pc[p] = "health"
    /\ Reply(p, 200, "health", NoBody)
    /\ UNCHANGED << registry, storage, ev_storage, counters, req, session,
                    overlapped, requests_started >>

\* routes.py get_tenant_id (lines 24-28), the first statement of get_tenant_db
\* and the dependency of drop_tables.
GetTenantId(p) ==
    /\ pc[p] = "sanitize"
    /\ IF sanitize_tenant_id(req[p].tenant_id)
       THEN /\ Goto(p, IF req[p].op = "recreate" THEN "rc_flag" ELSE "db_lookup")
            /\ UNCHANGED << result, obs >>
       ELSE Fail(p, 422, "sanitize", "Invalid tenant ID")
    /\ UNCHANGED << registry, storage, ev_storage, counters, req, session,
                    overlapped, requests_started >>

\* ------------------------------------------------- contact-api get_db
\* db.py lines 30-32: the membership test that selects the fast path.
GetDbLookup(p) ==
    /\ pc[p] = "db_lookup"
    /\ IF NotCached(tenant_sessions_postgres, Name(p))
       THEN Goto(p, "db_check")
       ELSE Goto(p, "db_open")
    /\ obs' = [obs EXCEPT
                 ![p].cached_at_lookup = Name(p) \in DOMAIN tenant_sessions_postgres,
                 ![p].init_at_start = Name(p) \in initialized_tenants]
    /\ UNCHANGED << registry, storage, ev_storage, counters, req, session,
                    result, overlapped, requests_started >>

\* db.py lines 34-46: connect to the control database and ask pg_database
\* whether the tenant's database exists.  The connection can fail.
GetDbCheckDatabase(p) ==
    /\ pc[p] = "db_check"
    /\ \/ /\ Goto(p, IF db_exists[Name(p)] THEN "db_build" ELSE "db_create")
          /\ obs' = [obs EXCEPT ![p].db_checks = @ + 1]
          /\ UNCHANGED result
       \/ Unhandled(p, "server_connect", "OperationalError")
    /\ UNCHANGED << registry, storage, ev_storage, counters, req, session,
                    overlapped, requests_started >>

\* Variant: CREATE DATABASE without the try/except, its error ends the request.
GetDbCreateDatabase_raises(p) ==
    /\ pc[p] = "db_create"
    /\ \/ /\ ~db_exists[Name(p)]
          /\ db_exists' = [db_exists EXCEPT ![Name(p)] = TRUE]
          /\ obs' = [obs EXCEPT ![p].create_stmts = @ + 1]
          /\ Goto(p, "db_build")
          /\ UNCHANGED result
       \/ /\ UNCHANGED db_exists
          /\ pc' = [pc EXCEPT ![p] = "done"]
          /\ result' = [result EXCEPT ![p] = 500]
          /\ obs' = [obs EXCEPT ![p].create_stmts = @ + 1,
                                ![p].create_failed = TRUE,
                                ![p].stage = "create_database"]
    /\ UNCHANGED << registry, schema_exists, tables_exist, has_rows,
                    ev_storage, counters, req, session, overlapped,
                    requests_started >>

\* db.py lines 47-52: CREATE DATABASE inside try/except.  The statement fails
\* when the database exists by now (created after the check of line 41) and
\* can fail for any other reason (privilege, server error); the except
\* clause logs the error and execution continues at line 56.
GetDbCreateDatabase(p) ==
    /\ pc[p] = "db_create"
    /\ \/ /\ ~db_exists[Name(p)]
          /\ db_exists' = [db_exists EXCEPT ![Name(p)] = TRUE]
          /\ obs' = [obs EXCEPT ![p].create_stmts = @ + 1]
       \/ /\ UNCHANGED db_exists
          /\ obs' = [obs EXCEPT ![p].create_stmts = @ + 1,
                                ![p].create_failed = TRUE]
    /\ Goto(p, "db_build")
    /\ UNCHANGED << registry, schema_exists, tables_exist, has_rows,
                    ev_storage, counters, req, session, result, overlapped,
                    requests_started >>

\* db.py lines 57-66: create_engine, sessionmaker and the store into the
\* cache.  The factory is bound to the database named in its URL (line 57)
\* and identified by the number of factories built for that database.
GetDbBuildFactory(p) ==
    /\ pc[p] = "db_build"
    /\ engines_created' = [engines_created EXCEPT ![Name(p)] = @ + 1]
    /\ tenant_sessions_postgres' =
          StoreFactory(tenant_sessions_postgres, Name(p),
                       [db |-> Name(p), serial |-> engines_created[Name(p)] + 1])
    /\ obs' = [obs EXCEPT ![p].built = @ + 1]
    /\ Goto(p, "db_initcheck")
    /\ UNCHANGED << initialized_tenants, storage, ev_storage, evictions,
                    ddl_runs, tables_created, req, session, result,
                    overlapped, requests_started >>

\* db.py line 69: skip schema and table creation for an initialised tenant.
GetDbInitCheck(p) ==
    /\ pc[p] = "db_initcheck"
    /\ Goto(p, IF NotInitialized(initialized_tenants, Name(p))
               THEN "db_schema" ELSE "db_open")
    /\ UNCHANGED << registry, storage, ev_storage, counters, req, session,
                    result, obs, overlapped, requests_started >>

\* db.py lines 70-73: connect through the new engine and run
\* CREATE SCHEMA IF NOT EXISTS.  The connection fails when the tenant's
\* database does not exist.
GetDbCreateSchema(p) ==
    /\ pc[p] = "db_schema"
    /\ IF db_exists[Name(p)]
       THEN /\ schema_exists' = [schema_exists EXCEPT ![Name(p)] = TRUE]
            /\ ddl_runs' = [ddl_runs EXCEPT ![Name(p)] = @ + 1]
            /\ obs' = [obs EXCEPT ![p].ddl = @ + 1]
            /\ Goto(p, "db_tables")
            /\ UNCHANGED result
       ELSE /\ Unhandled(p, "connect", "OperationalError")
            /\ UNCHANGED << schema_exists, ddl_runs >>
    /\ UNCHANGED << registry, db_exists, tables_exist, has_rows, ev_storage,
                    engines_created, evictions, tables_created, req, session,
                    overlapped, requests_started >>

\* db.py line 76: Base.metadata.create_all(bind=engine), CREATE TABLE for
\* the tables that are missing.  The statement can fail.
GetDbCreateTables(p) ==
    /\ pc[p] = "db_tables"
    /\ \/ /\ tables_exist' = [tables_exist EXCEPT ![Name(p)] = TRUE]
          /\ tables_created' = [tables_created EXCEPT ![Name(p)] = @ + 1]
          /\ obs' = [obs EXCEPT ![p].ddl = @ + 1]
          /\ Goto(p, "db_mark")
          /\ UNCHANGED result
       \/ /\ Unhandled(p, "create_all", "SQLAlchemyError")
          /\ UNCHANGED << tables_exist, tables_created >>
    /\ UNCHANGED << registry, db_exists, schema_exists, has_rows, ev_storage,
                    engines_created, evictions, ddl_runs, req, session,
                    overlapped, requests_started >>

\* db.py line 77: initialized_tenants.add(tenant_db_name).
GetDbMarkInitialized(p) ==
    /\ pc[p] = "db_mark"
    /\ initialized_tenants' = initialized_tenants \cup {Name(p)}
    /\ Goto(p, "db_open")
    /\ UNCHANGED << tenant_sessions_postgres, storage, ev_storage, counters,
                    req, session, result, obs, overlapped, requests_started >>

\* db.py line 80: db = tenant_sessions_postgres[tenant_db_name]().
\* The subscript raises KeyError when the entry is not in the dictionary.
GetDbOpenSession(p) ==
    /\ pc[p] = "db_open"
    /\ IF Name(p) \in DOMAIN tenant_sessions_postgres
       THEN /\ session' = [session EXCEPT ![p] =
                             [factory |-> tenant_sessions_postgres[Name(p)],
                              state |-> "open"]]
            /\ obs' = [obs EXCEPT ![p].opened = @ + 1]
            /\ Goto(p, "handler")
            /\ UNCHANGED result
       ELSE /\ Unhandled(p, "open_session", "KeyError")
            /\ UNCHANGED session
    /\ UNCHANGED << registry, storage, ev_storage, counters, req,
                    overlapped, requests_started >>

\* A contact route (routes.py lines 57-129) runs with the yielded session.
\* Its queries fail when the tenant's tables are missing; a successful write
\* leaves the table with or without rows.
ContactHandler(p) ==
    /\ pc[p] = "handler"
    /\ \E outcome \in Outcomes, rows \in BOOLEAN :
          /\ ~(db_exists[Name(p)] /\ tables_exist[Name(p)])
                => outcome = "unexpected"
          /\ has_rows' = [has_rows EXCEPT ![Name(p)] =
                            IF outcome = "ok" THEN rows ELSE @]
          /\ obs' = [obs EXCEPT ![p].outcome = outcome,
                                 ![p].body = BodyOf(outcome)]
          /\ result' = [result EXCEPT ![p] = StatusOf(outcome)]
    /\ Goto(p, "db_close")
    /\ UNCHANGED << registry, db_exists, schema_exists, tables_exist,
                    ev_storage, counters, req, session, overlapped,
                    requests_started >>

\* db.py lines 81-84: the generator is resumed (or the handler's exception is
\* thrown into it) and the finally clause closes the session.
GetDbClose(p) ==
    /\ pc[p] = "db_close"
    /\ IF ClosesOnExit(obs[p].outcome)
       THEN /\ session' = [session EXCEPT ![p].state = "closed"]
            /\ obs' = [obs EXCEPT ![p].closed = @ + 1]
       ELSE UNCHANGED << session, obs >>
    /\ Goto(p, "done")
    /\ UNCHANGED << registry, storage, ev_storage, counters, req, result,
                    overlapped, requests_started >>

\* ------------------------- contact-api DatabaseCleanerQuery.recreate_all_tables
\* Variant: the message of the events-api cleaner, which names no tenant.
recreate_wrap_no_tenant(cause, tenant_id) ==
    [type |-> "Exception",
     prefix |-> IF cause = "SQLAlchemyError" THEN "Database error"
                ELSE "Unexpected error",
     tenant_id |-> <<>>,
     cause |-> cause]

\* daos.py lines 159-164: an exception raised inside the try block is
\* replaced by Exception(f"Database error for tenant {tenant_id}: {e}") when
\* it is an SQLAlchemyError and by
\* Exception(f"Unexpected error for tenant {tenant_id}: {e}") otherwise.
recreate_wrap(cause, tenant_id) ==
    [type |-> "Exception",
     prefix |-> IF cause = "SQLAlchemyError" THEN "Database error for tenant"
                ELSE "Unexpected error for tenant",
     tenant_id |-> tenant_id,
     cause |-> cause]

\* services.py lines 170-178: ValueError becomes HTTP 400, every other
\* exception HTTP 500.
recreate_status(error) == IF error.type = "ValueError" THEN 400 ELSE 500

\* services.py lines 175 and 178: the detail of the error response.
recreate_detail(error) ==
    IF error.type = "ValueError" THEN error.prefix
    ELSE "Internal server error while recreating tables"

\* The recreate request of worker p ends with the exception `cause` raised
\* inside the try block of the DAO.
RecreateRaise(p, cause, stage) ==
    LET error == recreate_wrap(cause, req[p].tenant_id) IN
    /\ pc' = [pc EXCEPT ![p] = "done"]
    /\ result' = [result EXCEPT ![p] = recreate_status(error)]
    /\ obs' = [obs EXCEPT ![p].stage = stage, ![p].error = error,
                           ![p].body = [detail |-> recreate_detail(error),
                                        text |-> ""]]

\* Variant: the flag is not tested.
RecreateCheckFlag_ignored(p) ==
    /\ pc[p] = "rc_flag"
    /\ Goto(p, "rc_lookup")
    /\ UNCHANGED << registry, storage, ev_storage, counters, req, session,
                    result, obs, overlapped, requests_started >>

\* daos.py lines 134-135 and services.py lines 173-175: without the flag the
\* DAO raises ValueError, which the service turns into HTTP 400.
RecreateCheckFlag(p) ==
    /\ pc[p] = "rc_flag"
    /\ IF req[p].recreate
       THEN /\ Goto(p, "rc_lookup")
            /\ UNCHANGED << result, obs >>
       ELSE Fail(p, 400, "flag", "Tables are not recreated")
    /\ UNCHANGED << registry, storage, ev_storage, counters, req, session,
                    overlapped, requests_started >>

\* daos.py line 140: `if tenant_db_name in tenant_sessions_postgres`.
RecreateLookup(p) ==
    /\ pc[p] = "rc_lookup"
    /\ Goto(p, IF NotCached(tenant_sessions_postgres, Name(p))
               THEN "rc_drop" ELSE "rc_evict")
    /\ UNCHANGED << registry, storage, ev_storage, counters, req, session,
                    result, obs, overlapped, requests_started >>

\* daos.py lines 141-143: open a session from the cached factory, close it,
\* delete the cache entry.  KeyError (entry deleted since line 140) is caught
\* by `except Exception` and reported as HTTP 500.
RecreateEvict(p) ==
    /\ pc[p] = "rc_evict"
    /\ IF Name(p) \in DOMAIN tenant_sessions_postgres
       THEN /\ tenant_sessions_postgres' =
                  EvictFactory(tenant_sessions_postgres, Name(p))
            /\ evictions' = [evictions EXCEPT ![Name(p)] = @ + 1]
            /\ Goto(p, "rc_drop")
            /\ UNCHANGED << result, obs >>
       ELSE /\ RecreateRaise(p, "KeyError", "evict")
            /\ UNCHANGED << tenant_sessions_postgres, evictions >>
    /\ UNCHANGED << initialized_tenants, storage, ev_storage, engines_created,
                    ddl_runs, tables_created, req, session, overlapped,
                    requests_started >>

\* daos.py lines 146-150: create_engine and Base.metadata.drop_all.  It fails
\* when the tenant's database does not exist and can fail for other reasons.
RecreateDropAll(p) ==
    /\ pc[p] = "rc_drop"
    /\ \/ /\ db_exists[Name(p)]
          /\ tables_exist' = [tables_exist EXCEPT ![Name(p)] = FALSE]
          /\ has_rows' = [has_rows EXCEPT ![Name(p)] = FALSE]
          /\ Goto(p, "rc_create")
          /\ UNCHANGED << result, obs >>
       \/ /\ RecreateRaise(p, "SQLAlchemyError", "drop_all")
          /\ UNCHANGED << tables_exist, has_rows >>
    /\ UNCHANGED << registry, db_exists, schema_exists, ev_storage, counters,
                    req, session, overlapped, requests_started >>

\* daos.py line 151: Base.metadata.create_all.  The tables live in the schema
\* named by the configuration (models.py line 12), so it fails when the
\* schema is missing, and it can fail for other reasons.
RecreateCreateAll(p) ==
    /\ pc[p] = "rc_create"
    /\ \/ /\ db_exists[Name(p)] /\ schema_exists[Name(p)]
          /\ tables_exist' = [tables_exist EXCEPT ![Name(p)] = TRUE]
          /\ Goto(p, "rc_mark")
          /\ UNCHANGED << result, obs >>
       \/ /\ RecreateRaise(p, "SQLAlchemyError", "create_all")
          /\ UNCHANGED tables_exist
    /\ UNCHANGED << registry, db_exists, schema_exists, has_rows, ev_storage,
                    counters, req, session, overlapped, requests_started >>

\* daos.py lines 153-157: initialized_tenants.add and the confirmation.
RecreateMark(p) ==
    /\ pc[p] = "rc_mark"
    /\ initialized_tenants' = initialized_tenants \cup {Name(p)}
    /\ pc' = [pc EXCEPT ![p] = "done"]
    /\ result' = [result EXCEPT ![p] = 200]
    /\ UNCHANGED << tenant_sessions_postgres, storage, ev_storage, counters,
                    req, session, obs, overlapped, requests_started >>

\* ---------------------------------------------------------- events-api
\* Name of the single database of the events service.
EventsDb == <<"e", "v">>

\* events-api routes.py lines 58-60: an exception of create_tables is
\* answered with HTTPException(500, f"Failed to recreate tables: {str(e)}").
drop_tables_detail(cause) ==
    [detail |-> "Failed to recreate tables: ", text |-> cause]

\* events-api routes.py lines 46-60 with db.py create_tables (143-170).
\* Without the flag: HTTP 400 before anything else.  With it: create the
\* database and the schema if missing, drop the tables (an error of the drop
\* is swallowed, db.py lines 111-113), create the tables and the indexes.
EventsDropTables(p) ==
    /\ pc[p] = "ev_recreate"
    /\ IF ~req[p].recreate
       THEN /\ Fail(p, 400, "flag", "Set recreate=true to proceed")
            /\ UNCHANGED ev_storage
       ELSE \/ /\ ev_tables_exist' = TRUE      \* dropped and created again
               /\ ev_has_rows' = FALSE
               /\ pc' = [pc EXCEPT ![p] = "done"]
               /\ result' = [result EXCEPT ![p] = 200]
               /\ UNCHANGED obs
            \/ /\ ev_tables_exist              \* drop failed, create_all skips
               /\ UNCHANGED ev_storage
               /\ pc' = [pc EXCEPT ![p] = "done"]
               /\ result' = [result EXCEPT ![p] = 200]
               /\ UNCHANGED obs
            \/ /\ Reply(p, 500, "create_database",    \* raised before the drop
                        drop_tables_detail("OperationalError"))
               /\ UNCHANGED ev_storage
            \/ /\ ev_tables_exist' = FALSE     \* create_all raised after the drop
               /\ ev_has_rows' = FALSE
               /\ Reply(p, 500, "create_all",
                        drop_tables_detail("SQLAlchemyError"))
    /\ UNCHANGED << registry, storage, counters, req, session, overlapped,
                    requests_started >>

\* events-api routes.py lines 41-43: an exception of create_tables or of the
\* test query is answered with status 200 and
\* {"HEALTH": "OK", "database": "error", "error": str(e)}.
health_check_error(cause) == [detail |-> "", text |-> cause]

\* events-api routes.py lines 24-43 with db.py create_tables (143-170):
\* create_tables() runs as in drop_tables, then a session is opened for
\* SELECT 1 and closed; every outcome is answered with status 200.
EventsHealthCheck(p) ==
    /\ pc[p] = "ev_health"
    /\ \/ /\ ev_tables_exist' = TRUE      \* dropped and created again
          /\ ev_has_rows' = FALSE
          /\ Reply(p, 200, "health", NoBody)
       \/ /\ ev_tables_exist              \* drop failed, create_all skips
          /\ UNCHANGED ev_storage
          /\ Reply(p, 200, "health", NoBody)
       \/ /\ Reply(p, 200, "create_database",    \* raised before the drop
                   health_check_error("OperationalError"))
          /\ UNCHANGED ev_storage
       \/ /\ ev_tables_exist' = FALSE     \* create_all raised after the drop
          /\ ev_has_rows' = FALSE
          /\ Reply(p, 200, "create_all", health_check_error("SQLAlchemyError"))
    /\ UNCHANGED << registry, storage, counters, req, session, overlapped,
                    requests_started >>

\* events-api db.py lines 173-174: db = SessionLocal(), the factory built
\* once at import (lines 21-24).
EventsGetDbOpen(p) ==
    /\ pc[p] = "ev_open"
    /\ session' = [session EXCEPT ![p] =
                     [factory |-> [db |-> EventsDb, serial |-> 1],
                      state |-> "open"]]
    /\ obs' = [obs EXCEPT ![p].opened = @ + 1]
    /\ Goto(p, "ev_handler")
    /\ UNCHANGED << registry, storage, ev_storage, counters, req, result,
                    overlapped, requests_started >>

\* An events route (routes.py lines 63-280) runs with the yielded session.
EventsHandler(p) ==
    /\ pc[p] = "ev_handler"
    /\ \E outcome \in Outcomes, rows \in BOOLEAN :
          /\ ~ev_tables_exist => outcome = "unexpected"
          /\ ev_has_rows' = (IF outcome = "ok" THEN rows ELSE ev_has_rows)
          /\ obs' = [obs EXCEPT ![p].outcome = outcome,
                                 ![p].body = BodyOf(outcome)]
          /\ result' = [result EXCEPT ![p] = StatusOf(outcome)]
    /\ Goto(p, "ev_close")
    /\ UNCHANGED << registry, storage, ev_tables_exist, counters, req,
                    session, overlapped, requests_started >>

\* events-api db.py lines 175-178: try / yield / finally db.close().
EventsGetDbClose(p) ==
    /\ pc[p] = "ev_close"
    /\ IF ClosesOnExit(obs[p].outcome)
       THEN /\ session' = [session EXCEPT ![p].state = "closed"]
            /\ obs' = [obs EXCEPT ![p].closed = @ + 1]
       ELSE UNCHANGED << session, obs >>
    /\ Goto(p, "done")
    /\ UNCHANGED << registry, storage, ev_storage, counters, req, result,
                    overlapped, requests_started >>

\* The response leaves the worker; the worker is free again.
Respond(p) ==
    /\ pc[p] = "done"
    /\ pc' = [pc EXCEPT ![p] = "idle"]
    /\ req' = [req EXCEPT ![p] = NoRequest]
    /\ session' = [session EXCEPT ![p] = NoSession]
    /\ result' = [result EXCEPT ![p] = 0]
    /\ obs' = [obs EXCEPT ![p] = NoObs]
    /\ UNCHANGED << registry, storage, ev_storage, counters, overlapped,
                    requests_started >>

\* ------------------------------------------------------- specification
\* A finished handler returns its response before any worker takes another
\* step: sending the response reads and writes nothing that is shared.
Responding == \E q \in Workers : pc[q] = "done"

Next ==
    \E p \in Workers :
        \/ Respond(p) /\ UNCHANGED domain_rows
        \/ ~Responding /\ ReceiveContact(p) /\ UNCHANGED domain_rows
        \/ ~Responding /\ ReceiveRecreate(p) /\ UNCHANGED domain_rows
        \/ ~Responding /\ ReceiveEvents(p) /\ UNCHANGED domain_rows
        \/ ~Responding /\ ReceiveEventsRecreate(p) /\ UNCHANGED domain_rows
        \/ ~Responding /\ GetTenantId(p) /\ UNCHANGED domain_rows
        \/ ~Responding /\ GetDbLookup(p) /\ UNCHANGED domain_rows
        \/ ~Responding /\ GetDbCheckDatabase(p) /\ UNCHANGED domain_rows
        \/ ~Responding /\ GetDbCreateDatabase(p) /\ UNCHANGED domain_rows
        \/ ~Responding /\ GetDbBuildFactory(p) /\ UNCHANGED domain_rows
        \/ ~Responding /\ GetDbInitCheck(p) /\ UNCHANGED domain_rows
        \/ ~Responding /\ GetDbCreateSchema(p) /\ UNCHANGED domain_rows
        \/ ~Responding /\ GetDbCreateTables(p) /\ UNCHANGED domain_rows
        \/ ~Responding /\ GetDbMarkInitialized(p) /\ UNCHANGED domain_rows
        \/ ~Responding /\ GetDbOpenSession(p) /\ UNCHANGED domain_rows
        \/ ~Responding /\ ContactHandler(p) /\ UNCHANGED domain_rows
        \/ ~Responding /\ GetDbClose(p) /\ UNCHANGED domain_rows
        \/ ~Responding /\ RecreateCheckFlag(p) /\ UNCHANGED domain_rows
        \/ ~Responding /\ RecreateLookup(p) /\ UNCHANGED domain_rows
        \/ ~Responding /\ RecreateEvict(p) /\ UNCHANGED domain_rows
        \/ ~Responding /\ RecreateDropAll(p) /\ UNCHANGED domain_rows
        \/ ~Responding /\ RecreateCreateAll(p) /\ UNCHANGED domain_rows
        \/ ~Responding /\ RecreateMark(p) /\ UNCHANGED domain_rows
        \/ ~Responding /\ EventsDropTables(p) /\ UNCHANGED domain_rows
        \/ ~Responding /\ EventsGetDbOpen(p) /\ UNCHANGED domain_rows
        \/ ~Responding /\ EventsHandler(p) /\ UNCHANGED domain_rows
        \/ ~Responding /\ EventsGetDbClose(p) /\ UNCHANGED domain_rows
        \/ ~Responding /\ ReceiveHealth(p) /\ UNCHANGED domain_rows
        \/ ~Responding /\ ReceiveEventsHealth(p) /\ UNCHANGED domain_rows
        \/ ~Responding /\ ContactHealthCheck(p) /\ UNCHANGED domain_rows
        \/ ~Responding /\ EventsHealthCheck(p) /\ UNCHANGED domain_rows

Spec == Init /\ [][Next]_vars

TypeOK ==
    /\ DOMAIN tenant_sessions_postgres \subseteq DbNames
    /\ initialized_tenants \subseteq DbNames
    /\ requests_started \in 0..MaxRequests
    /\ \A n \in DbNames : has_rows[n] => tables_exist[n]

\* ================================================= writes of the DAO classes
\* Every write of a DAO runs in `try: ... db.commit() ... except
\* SQLAlchemyError: db.rollback(); raise`.

\* Where the storage layer raises inside the try block: nowhere, in a
\* statement or the commit, or in db.refresh after the commit.
StorageErrors == {"none", "write", "refresh"}

\* Variant: the pending changes of the session are stored all the same.
rollback_keeps_pending(committed, pending) == pending

\* db.rollback(): the pending changes of the session are discarded and the
\* committed rows stay.
rollback(committed, pending) == committed

\* The rows stored when the try block is left: the written ones unless the
\* error came before the commit had completed.
StoredAfter(committed, written, at) ==
    IF at = "write" THEN rollback(committed, written) ELSE written

\* =================================================== contact-api ContactLogic
\* The contacts table of one tenant whose database, schema and tables
\* exist, and the calls of ContactLogic on it, one after the other.

\* Values uuid4() draws for contact_id.
ContactIds == {"c1", "c2"}
\* Values a request gives for email and phone.
EmailValues == {None, "e1", "e2"}
PhoneValues == {None, "p1", "p2"}

\* Python truthiness of an optional string field.
Truthy(v) == v # None

\* api/models.py lines 42-46: the before-validator of ContactCreate.
check_email_or_phone(email, phone) == Truthy(email) \/ Truthy(phone)

\* daos.py lines 16-22: the query starts with all rows, filter(email == ...)
\* is added when email is given, filter(phone == ...) is added when phone is
\* given (a second filter narrows the first), and first() takes a row.
find_by_email_or_phone(rows, email, phone) ==
    { c \in DOMAIN rows :
         /\ Truthy(email) => rows[c].email = email
         /\ Truthy(phone) => rows[c].phone = phone }

\* Some stored contact has this email / this phone.
EmailTaken(rows, email) ==
    Truthy(email) /\ \E c \in DOMAIN rows : rows[c].email = email
PhoneTaken(rows, phone) ==
    Truthy(phone) /\ \E c \in DOMAIN rows : rows[c].phone = phone

ContactCall(op, status, email, phone, stored) ==
    [op |-> op, status |-> status, email |-> email, phone |-> phone,
     dup_email |-> EmailTaken(contacts, email),
     dup_phone |-> PhoneTaken(contacts, phone),
     stored |-> stored, storage_error |-> "none"]

\* The `raise` of the except branch is handled by nothing in the service or
\* the route and reaches ExceptionHandlingMiddleware: 500.
ContactRaised(call, at) ==
    [call EXCEPT !.status = 500, !.storage_error = at,
                 !.stored = call.stored /\ at # "write"]

\* The try block of ContactQuery.create, update and delete.
ContactCommit(call, written, at) ==
    /\ contacts' = StoredAfter(contacts, written, at)
    /\ contact_last' = IF at = "none" THEN call ELSE ContactRaised(call, at)

\* POST /contacts: ContactCreate validation (422), then services.py lines
\* 60-80: 409 when find_by_email_or_phone returns a row, else daos.py create
\* (lines 28-50) inserts the row under a new contact_id, 201.
create_contact(email, phone) ==
    /\ IF ~check_email_or_phone(email, phone)
       THEN /\ contact_last' = ContactCall("create", 422, email, phone, FALSE)
            /\ UNCHANGED contacts
       ELSE IF find_by_email_or_phone(contacts, email, phone) # {}
       THEN /\ contact_last' = ContactCall("create", 409, email, phone, FALSE)
            /\ UNCHANGED contacts
       ELSE \E id \in ContactIds \ DOMAIN contacts, at \in StorageErrors :
            ContactCommit(ContactCall("create", 201, email, phone, TRUE),
                          (id :> [email |-> email, phone |-> phone]) @@ contacts,
                          at)
    /\ UNCHANGED << tenant_vars, events_rows >>

\* PUT /contacts/{id}: ContactCreate validation (422), then services.py
\* update_contact: 404 when the row is missing, else daos.py update (lines
\* 52-75) overwrites every field of the row, 200.
update_contact(id, email, phone) ==
    /\ IF ~check_email_or_phone(email, phone)
       THEN /\ contact_last' = ContactCall("update", 422, email, phone, FALSE)
            /\ UNCHANGED contacts
       ELSE IF id \notin DOMAIN contacts
       THEN /\ contact_last' = ContactCall("update", 404, email, phone, FALSE)
            /\ UNCHANGED contacts
       ELSE \E at \in StorageErrors :
            ContactCommit(ContactCall("update", 200, email, phone, TRUE),
                          [contacts EXCEPT ![id] =
                               [email |-> email, phone |-> phone]],
                          at)
    /\ UNCHANGED << tenant_vars, events_rows >>

\* DELETE /contacts/{id}: services.py delete_contact, 404 when the row is
\* missing, else daos.py delete (lines 77-89), 200.
delete_contact(id) ==
    /\ IF id \notin DOMAIN contacts
       THEN /\ contact_last' = ContactCall("delete", 404, None, None, FALSE)
            /\ UNCHANGED contacts
       ELSE \E at \in StorageErrors \ {"refresh"} :
            ContactCommit(ContactCall("delete", 200, None, None, FALSE),
                          [c \in DOMAIN contacts \ {id} |-> contacts[c]], at)
    /\ UNCHANGED << tenant_vars, events_rows >>

ContactNext ==
    \/ \E email \in EmailValues, phone \in PhoneValues :
          create_contact(email, phone)
    \/ \E id \in ContactIds, email \in EmailValues, phone \in PhoneValues :
          update_contact(id, email, phone)
    \/ \E id \in ContactIds : delete_contact(id)

ContactSpec == Init /\ [][ContactNext]_vars

\* ====================================================== events-api services
\* The tables of the events database and the calls of UserLogic, EventLogic
\* and AgendaLogic on them, one after the other; a call is made either by a
\* route (layer "route") or directly with a user id (layer "service").

\* Largest display_order the model stores.
MaxOrder == 1

\* Values generate_user_id() can return; the second is the literal of
\* routes.py line 22.
UserIds == {"u1", "4rOq4dpioFJq"}
UserEmails == {"m1", "m2"}
EventIds == {"e1", "e2"}
AgendaIds == {"g1", "g2"}
ItemIds == {"i1", "i2"}

\* Times of day of agenda items; NoTime stands for None.
NoTime == 0
StartTimes == {1}
EndTimes == {1, 2}
\* display_order values; NoOrder stands for None.
NoOrder == -1
Orders == 0..MaxOrder

\* A text that uuid.UUID accepts, and one it rejects.
UuidText == "123e4567-e89b-12d3-a456-426614174000"
OtherText == "wrong_user_id"
UuidTexts == {UuidText}

\* The item lists of a reorder request: one or two entries.
ReorderEntries == [item_id : ItemIds, display_order : Orders]
ReorderLists ==
    { <<a>> : a \in ReorderEntries }
        \cup { l \in [1..2 -> ReorderEntries] :
                  l[1].display_order # l[2].display_order }

\* The bodies of the requests that create an item: any end_time with no
\* display_order, any display_order with no end_time.
CreateRequests ==
    [start_time : StartTimes, end_time : EndTimes \cup {NoTime},
     display_order : {NoOrder}]
        \cup [start_time : StartTimes, end_time : {NoTime}, display_order : Orders]

\* The bodies of the requests that update a user, an event, an agenda: each
\* field is None or a new value.
UserUpdates == [first_name : {None, "f2"}, phone : {None, "p2"}]
EventUpdates == [name : {None, "n2"}, location : {None, "l2"}]
AgendaUpdates == [title : {None, "t2"}, description : {None, "d2"}]

\* The body that gives no field.
NoUserUpdate == [first_name |-> None, phone |-> None]
NoEventUpdate == [name |-> None, location |-> None]
NoAgendaUpdate == [title |-> None, description |-> None]

\* The fields of a body that are not None.
Supplied(data) ==
    [f \in { g \in DOMAIN data : data[g] # None } |-> data[f]]

\* The same for the body of an item update.
SuppliedItem(start_time, end_time, display_order) ==
    [f \in ((IF start_time # NoTime THEN {"start_time"} ELSE {})
             \cup (IF end_time # NoTime THEN {"end_time"} ELSE {})
             \cup (IF display_order # NoOrder THEN {"display_order"} ELSE {}))
       |-> CASE f = "start_time" -> start_time
             [] f = "end_time" -> end_time
             [] OTHER -> display_order]

\* The bodies of the requests that update an item: one of the three fields,
\* or both times.
UpdateRequests ==
    [start_time : StartTimes, end_time : EndTimes \cup {NoTime},
     display_order : {NoOrder}]
        \cup [start_time : {NoTime}, end_time : EndTimes, display_order : {NoOrder}]
        \cup [start_time : {NoTime}, end_time : {NoTime}, display_order : Orders]

IdsOf(item_orders) == [k \in DOMAIN item_orders |-> item_orders[k].item_id]

Without(rows, ids) == [r \in DOMAIN rows \ ids |-> rows[r]]

\* Whether the caller owns the event (events.owner_id) when the call starts.
CallerOwns(user_id, event_id) ==
    IF event_id = "" THEN ""
    ELSE IF \A e \in DOMAIN events : e # event_id THEN "missing"
    ELSE IF \E e \in DOMAIN events : e = event_id /\ events[e].owner_id = user_id
    THEN "yes" ELSE "no"

\* The items of the agenda of the event when the call starts.
ItemsOfEvent(event_id) ==
    { i \in DOMAIN agenda_items :
        \E g \in DOMAIN agendas :
            agendas[g].event_id = event_id /\ agenda_items[i].agenda_id = g }

\* The header is one that security.get_user_id accepts.
Authorized(header) ==
    /\ header.present
    /\ header.value \in { <<"Bearer ", t>> : t \in UuidTexts }
                          \cup { <<t>> : t \in UuidTexts }

\* security.py line 27: the header without its "Bearer " prefix.
TokenOf(header) ==
    LET token == SelectSeq(header.value, LAMBDA part : part # "Bearer ") IN
    IF header.present /\ Len(token) = 1 THEN token[1] ELSE ""

EvCall(layer, header, op, user_id, event_id, item_ids, status, detail) ==
    [layer |-> layer, authorized |-> Authorized(header), op |-> op,
     status |-> status, detail |-> detail,
     owner |-> CallerOwns(user_id, event_id),
     known |-> (op = "create_event" /\ user_id \in DOMAIN users),
     foreign |-> LET out == { k \in DOMAIN item_ids :
                                item_ids[k] \notin ItemsOfEvent(event_id) }
                 IN IF out = {} THEN "none"
                    ELSE IF out = DOMAIN item_ids THEN "all" ELSE "some",
     removed |-> 0, storage_error |-> "none", display_order |-> NoOrder,
     user_id |-> user_id, event_id |-> event_id, item_id |-> "",
     patch |-> << >>, returned |-> {}, token |-> TokenOf(header)]

\* A call that leaves every table as it is.
Answer(layer, header, op, user_id, event_id, status, detail) ==
    /\ ev_last' = EvCall(layer, header, op, user_id, event_id, << >>, status, detail)
    /\ UNCHANGED << users, events, agendas, agenda_items >>

\* A call that leaves every table as it is and returns rows: `rows` are the
\* ids of the rows in the response model.
AnswerRows(layer, header, op, user_id, event_id, rows) ==
    /\ ev_last' = [EvCall(layer, header, op, user_id, event_id, << >>, 200, "")
                     EXCEPT !.returned = rows]
    /\ UNCHANGED << users, events, agendas, agenda_items >>

\* The four tables as one value.
Tables ==
    [users |-> users, events |-> events, agendas |-> agendas,
     agenda_items |-> agenda_items]

\* The `raise` of the except branch is handled by nothing in the service or
\* the route and reaches ExceptionHandlingMiddleware (main.py lines 30-36).
Raised(call, at) ==
    [call EXCEPT !.status = 500, !.detail = "Internal server error",
                 !.storage_error = at, !.returned = {},
                 !.removed = IF at = "write" THEN 0 ELSE call.removed]

\* The try block of a DAO write: `written` are the tables with the changes
\* of the session applied.
Commit(call, written, at) ==
    LET stored == StoredAfter(Tables, written, at) IN
    /\ users' = stored.users
    /\ events' = stored.events
    /\ agendas' = stored.agendas
    /\ agenda_items' = stored.agenda_items
    /\ ev_last' = IF at = "none" THEN call ELSE Raised(call, at)

\* Variant: every field of the request replaces the stored one.
Updated_replaces(old, new, none) == new

\* daos.py lines 43-48 (and 127-142, 224-227, 322-324): a field of the
\* request that is not None replaces the stored one.
Updated(old, new, none) == IF new = none THEN old ELSE new

\* ------------------------------------------------------------- UserLogic
\* services.py lines 34-50 with daos.py lines 16-35: 409 when the email is
\* taken, else a row under a new id; the request gives the email only.
create_user(layer, header, email) ==
    /\ IF \E u \in DOMAIN users : users[u].email = email
       THEN Answer(layer, header, "create_user", "", "", 409,
                   "User already exists with the same email.")
       ELSE \E id \in UserIds \ DOMAIN users, at \in StorageErrors :
            Commit(EvCall(layer, header, "create_user", id, "", << >>, 201, ""),
                   [Tables EXCEPT !.users =
                       (id :> [email |-> email, first_name |-> None,
                               phone |-> None]) @@ users],
                   at)
    /\ UNCHANGED << tenant_vars, contact_rows >>

\* services.py lines 17-32.
get_user(layer, header, user_id) ==
    /\ IF user_id \notin DOMAIN users
       THEN Answer(layer, header, "get_user", user_id, "", 404, "not found.")
       ELSE Answer(layer, header, "get_user", user_id, "", 200, "")
    /\ UNCHANGED << tenant_vars, contact_rows >>

\* services.py lines 52-69 with daos.py lines 37-56: first_name and phone
\* (last_name is handled like first_name).
update_user(layer, header, user_id, user_data) ==
    /\ IF user_id \notin DOMAIN users
       THEN Answer(layer, header, "update_user", user_id, "", 404,
                   "not found for update.")
       ELSE \E at \in StorageErrors :
            Commit([EvCall(layer, header, "update_user", user_id, "", << >>,
                           200, "")
                      EXCEPT !.patch = Supplied(user_data)],
                   [Tables EXCEPT !.users[user_id] =
                      [email |-> @.email,
                       first_name |-> Updated(@.first_name,
                                              user_data.first_name, None),
                       phone |-> Updated(@.phone, user_data.phone, None)]],
                   at)
    /\ UNCHANGED << tenant_vars, contact_rows >>

\* ------------------------------------------------------------ EventLogic
\* Variant: the event with this id, whoever owns it.
event_get_one_any_owner(rows, event_id, user_id) == event_id \in DOMAIN rows

\* daos.py lines 60-65: the event with this id and this owner.
event_get_one(rows, event_id, user_id) ==
    event_id \in DOMAIN rows /\ rows[event_id].owner_id = user_id

\* daos.py lines 66-69: the events of this owner.
event_get_all(rows, user_id) ==
    { e \in DOMAIN rows : rows[e].owner_id = user_id }

\* api/models.py lines 147-188: an Agenda of a response holds its items, an
\* Event its agenda.
AgendaRows(agenda_ids) ==
    agenda_ids \cup { i \in DOMAIN agenda_items :
                        agenda_items[i].agenda_id \in agenda_ids }

EventRows(event_ids) ==
    event_ids \cup AgendaRows({ g \in DOMAIN agendas :
                                  agendas[g].event_id \in event_ids })

\* Variant: the user is not looked up.
user_exists_unchecked(rows, user_id) == TRUE

\* services.py lines 132-134: UserQuery().get_one(user_id) is not None.
user_exists(rows, user_id) == user_id \in DOMAIN rows

\* services.py lines 76-92.
get_event(layer, header, user_id, event_id) ==
    /\ IF ~event_get_one(events, event_id, user_id)
       THEN Answer(layer, header, "get_event", user_id, event_id, 404, "not found.")
       ELSE AnswerRows(layer, header, "get_event", user_id, event_id,
                       EventRows({event_id}))
    /\ UNCHANGED << tenant_vars, contact_rows >>

\* services.py lines 94-119: the list of the caller's events, always 200.
get_events(layer, header, user_id) ==
    /\ AnswerRows(layer, header, "get_events", user_id, "",
                  EventRows(event_get_all(events, user_id)))
    /\ UNCHANGED << tenant_vars, contact_rows >>

\* services.py lines 121-138 with daos.py lines 85-119; the request gives
\* the required name and location.
create_event(layer, header, user_id) ==
    /\ IF ~user_exists(users, user_id)
       THEN Answer(layer, header, "create_event", user_id, "", 404,
                   "not found. Please create user first.")
       ELSE \E id \in EventIds \ DOMAIN events, at \in StorageErrors :
            Commit([EvCall(layer, header, "create_event", user_id, id,
                           << >>, 201, "")
                      EXCEPT !.returned = {id}],
                   [Tables EXCEPT !.events =
                       (id :> [owner_id |-> user_id, name |-> "n1",
                               location |-> "l1"]) @@ events],
                   at)
    /\ UNCHANGED << tenant_vars, contact_rows >>

\* services.py lines 140-158 with daos.py lines 121-150: name and location
\* (the six other fields are handled like them).
update_event(layer, header, user_id, event_id, event_data) ==
    /\ IF ~event_get_one(events, event_id, user_id)
       THEN Answer(layer, header, "update_event", user_id, event_id, 404,
                   "not found for update.")
       ELSE \E at \in StorageErrors :
            Commit([EvCall(layer, header, "update_event", user_id, event_id,
                           << >>, 200, "")
                      EXCEPT !.patch = Supplied(event_data),
                             !.returned = EventRows({event_id})],
                   [Tables EXCEPT !.events[event_id] =
                      [owner_id |-> @.owner_id,
                       name |-> Updated(@.name, event_data.name, None),
                       location |-> Updated(@.location, event_data.location,
                                            None)]],
                   at)
    /\ UNCHANGED << tenant_vars, contact_rows >>

\* Variant: the agenda of a deleted event stays.
agendas_of_event_none(rows, event_id) == {}

\* database/models.py lines 57 and 76: the agendas deleted with an event.
agendas_of_event(rows, event_id) ==
    { g \in DOMAIN rows : rows[g].event_id = event_id }

\* database/models.py lines 84 and 92: the items deleted with agendas.
items_of_agendas(rows, agenda_ids) ==
    { i \in DOMAIN rows : rows[i].agenda_id \in agenda_ids }

\* services.py lines 160-177 with daos.py lines 152-164: db.delete(event)
\* deletes the event, its agenda and the agenda's items.
delete_event(layer, header, user_id, event_id) ==
    /\ IF ~event_get_one(events, event_id, user_id)
       THEN Answer(layer, header, "delete_event", user_id, event_id, 404,
                   "not found for deletion.")
       ELSE LET gone == agendas_of_event(agendas, event_id) IN
            \E at \in StorageErrors \ {"refresh"} :
            Commit([EvCall(layer, header, "delete_event", user_id, event_id,
                           << >>, 200, "")
                      EXCEPT !.removed = Cardinality(gone) + Cardinality(
                                 items_of_agendas(agenda_items, gone))],
                   [Tables EXCEPT
                       !.events = Without(events, {event_id}),
                       !.agendas = Without(agendas, gone),
                       !.agenda_items = Without(agenda_items,
                                          items_of_agendas(agenda_items, gone))],
                   at)
    /\ UNCHANGED << tenant_vars, contact_rows >>

\* ----------------------------------------------------------- AgendaLogic
\* Variant: every caller passes.
validate_ownership_any(rows, event_id, user_id) == TRUE

\* daos.py lines 252-257: the event exists and the caller owns it.
validate_ownership(rows, event_id, user_id) ==
    event_id \in DOMAIN rows /\ rows[event_id].owner_id = user_id

\* daos.py lines 168-175 (and 179-184, 283-288, 355-360): the agendas joined
\* with their events, filtered by event id and owner; first() takes one.
agenda_get_one(event_id, user_id) ==
    { g \in DOMAIN agendas :
         /\ agendas[g].event_id = event_id
         /\ event_get_one(events, event_id, user_id) }

\* daos.py lines 261-269: the item joined with its agenda and event.
item_get_one(item_id, event_id, user_id) ==
    /\ item_id \in DOMAIN agenda_items
    /\ agenda_items[item_id].agenda_id \in agenda_get_one(event_id, user_id)

Forbidden(layer, header, op, user_id, event_id) ==
    Answer(layer, header, op, user_id, event_id, 403,
           "You don't have permission to access this event.")

\* services.py lines 185-209.
get_agenda(layer, header, user_id, event_id) ==
    /\ IF ~validate_ownership(events, event_id, user_id)
       THEN Forbidden(layer, header, "get_agenda", user_id, event_id)
       ELSE IF agenda_get_one(event_id, user_id) = {}
       THEN Answer(layer, header, "get_agenda", user_id, event_id, 404,
                   "Agenda not found")
       ELSE \E g \in agenda_get_one(event_id, user_id) :
            AnswerRows(layer, header, "get_agenda", user_id, event_id,
                       AgendaRows({g}))
    /\ UNCHANGED << tenant_vars, contact_rows >>

\* Variant: an existing agenda does not stop the creation.
agenda_exists_ignored(event_id, user_id) == FALSE

\* services.py lines 232-233: `existing = self.agenda.get_one(...)`.
agenda_exists(event_id, user_id) == agenda_get_one(event_id, user_id) # {}

\* services.py lines 211-250 with daos.py lines 191-215; the request gives
\* no title and no description, so the title is the default of line 237.
create_agenda(layer, header, user_id, event_id) ==
    /\ IF ~validate_ownership(events, event_id, user_id)
       THEN Answer(layer, header, "create_agenda", user_id, event_id, 404,
                   "not found or you don't have permission to access it.")
       ELSE IF agenda_exists(event_id, user_id)
       THEN Answer(layer, header, "create_agenda", user_id, event_id, 409,
                   "Agenda already exists for this event.")
       ELSE IF ~event_get_one(events, event_id, user_id)
       THEN Answer(layer, header, "create_agenda", user_id, event_id, 404,
                   "not found.")
       ELSE \E id \in AgendaIds \ DOMAIN agendas, at \in StorageErrors :
            Commit([EvCall(layer, header, "create_agenda", user_id,
                           event_id, << >>, 201, "")
                      EXCEPT !.returned = {id}],
                   [Tables EXCEPT !.agendas =
                       (id :> [event_id |-> event_id,
                               title |-> "Program dogadjaja",
                               description |-> None]) @@ agendas],
                   at)
    /\ UNCHANGED << tenant_vars, contact_rows >>

\* services.py lines 252-283 with daos.py lines 217-235.
update_agenda(layer, header, user_id, event_id, agenda_data) ==
    /\ IF ~validate_ownership(events, event_id, user_id)
       THEN Forbidden(layer, header, "update_agenda", user_id, event_id)
       ELSE IF agenda_get_one(event_id, user_id) = {}
       THEN Answer(layer, header, "update_agenda", user_id, event_id, 404,
                   "Agenda not found")
       ELSE \E g \in agenda_get_one(event_id, user_id), at \in StorageErrors :
            Commit([EvCall(layer, header, "update_agenda", user_id, event_id,
                           << >>, 200, "")
                      EXCEPT !.patch = Supplied(agenda_data),
                             !.returned = AgendaRows({g})],
                   [Tables EXCEPT !.agendas[g] =
                      [event_id |-> @.event_id,
                       title |-> Updated(@.title, agenda_data.title, None),
                       description |-> Updated(@.description,
                                               agenda_data.description, None)]],
                   at)
    /\ UNCHANGED << tenant_vars, contact_rows >>

\* services.py lines 285-309 with daos.py lines 237-250: db.delete(agenda)
\* deletes the agenda and its items.
delete_agenda(layer, header, user_id, event_id) ==
    /\ IF ~validate_ownership(events, event_id, user_id)
       THEN Forbidden(layer, header, "delete_agenda", user_id, event_id)
       ELSE IF agenda_get_one(event_id, user_id) = {}
       THEN Answer(layer, header, "delete_agenda", user_id, event_id, 404,
                   "Agenda not found")
       ELSE \E g \in agenda_get_one(event_id, user_id),
               at \in StorageErrors \ {"refresh"} :
            Commit([EvCall(layer, header, "delete_agenda", user_id, event_id,
                           << >>, 204, "")
                      EXCEPT !.removed = Cardinality(
                                 items_of_agendas(agenda_items, {g}))],
                   [Tables EXCEPT
                       !.agendas = Without(agendas, {g}),
                       !.agenda_items = Without(agenda_items,
                                          items_of_agendas(agenda_items, {g}))],
                   at)
    /\ UNCHANGED << tenant_vars, contact_rows >>

\* Variant: a new item without display_order is the first.
assigned_order_first(agenda_id, display_order) ==
    IF display_order = NoOrder THEN 1 ELSE display_order

\* daos.py lines 295-299: the display_order of a new item, the largest of
\* the agenda plus one when the request gives none.
assigned_order(agenda_id, display_order) ==
    LET orders == { agenda_items[i].display_order :
                      i \in items_of_agendas(agenda_items, {agenda_id}) }
        max_order == IF orders = {} THEN 0
                     ELSE CHOOSE m \in orders : \A o \in orders : o <= m
    IN IF display_order = NoOrder THEN max_order + 1 ELSE display_order

\* services.py lines 311-353 with daos.py lines 280-313.
create_agenda_item(layer, header, user_id, event_id, start_time, end_time, display_order) ==
    /\ IF ~validate_ownership(events, event_id, user_id)
       THEN Forbidden(layer, header, "create_agenda_item", user_id, event_id)
       ELSE IF end_time # NoTime /\ end_time <= start_time
       THEN Answer(layer, header, "create_agenda_item", user_id, event_id, 422,
                   "End time must be after start time.")
       ELSE IF agenda_get_one(event_id, user_id) = {}
       THEN Answer(layer, header, "create_agenda_item", user_id, event_id, 404,
                   "Agenda not found")
       ELSE \E g \in agenda_get_one(event_id, user_id),
               id \in ItemIds \ DOMAIN agenda_items, at \in StorageErrors :
            /\ assigned_order(g, display_order) <= MaxOrder
            /\ Commit([EvCall(layer, header, "create_agenda_item", user_id,
                              event_id, << >>, 201, "")
                         EXCEPT !.display_order = display_order,
                                !.returned = {id}],
                      [Tables EXCEPT !.agenda_items =
                          (id :> [agenda_id |-> g, start_time |-> start_time,
                                  end_time |-> end_time,
                                  display_order |->
                                      assigned_order(g, display_order)])
                          @@ agenda_items],
                      at)
    /\ UNCHANGED << tenant_vars, contact_rows >>

\* services.py lines 355-412 with daos.py lines 315-332.
update_agenda_item(layer, header, user_id, event_id, item_id, start_time, end_time, display_order) ==
    /\ IF ~validate_ownership(events, event_id, user_id)
       THEN Forbidden(layer, header, "update_agenda_item", user_id, event_id)
       ELSE IF start_time # NoTime /\ end_time # NoTime /\ end_time <= start_time
       THEN Answer(layer, header, "update_agenda_item", user_id, event_id, 422,
                   "End time must be after start time.")
       ELSE IF ~item_get_one(item_id, event_id, user_id)
       THEN Answer(layer, header, "update_agenda_item", user_id, event_id, 404,
                   "Agenda item not found")
       ELSE \E at \in StorageErrors :
            Commit([EvCall(layer, header, "update_agenda_item", user_id,
                           event_id, << >>, 200, "")
                      EXCEPT !.item_id = item_id, !.returned = {item_id},
                             !.patch = SuppliedItem(start_time, end_time,
                                                    display_order)],
                   [Tables EXCEPT !.agenda_items[item_id] =
                      [agenda_id |-> @.agenda_id,
                       start_time |-> Updated(@.start_time, start_time, NoTime),
                       end_time |-> Updated(@.end_time, end_time, NoTime),
                       display_order |->
                           Updated(@.display_order, display_order, NoOrder)]],
                   at)
    /\ UNCHANGED << tenant_vars, contact_rows >>

\* services.py lines 414-439 with daos.py lines 334-347.
delete_agenda_item(layer, header, user_id, event_id, item_id) ==
    /\ IF ~validate_ownership(events, event_id, user_id)
       THEN Forbidden(layer, header, "delete_agenda_item", user_id, event_id)
       ELSE IF ~item_get_one(item_id, event_id, user_id)
       THEN Answer(layer, header, "delete_agenda_item", user_id, event_id, 404,
                   "Agenda item not found")
       ELSE \E at \in StorageErrors \ {"refresh"} :
            Commit(EvCall(layer, header, "delete_agenda_item", user_id,
                          event_id, << >>, 204, ""),
                   [Tables EXCEPT !.agenda_items =
                       Without(agenda_items, {item_id})],
                   at)
    /\ UNCHANGED << tenant_vars, contact_rows >>

\* Variant: the request's ids are not compared with the agenda's items.
all_items_belong_unchecked(item_ids, agenda_id) == TRUE

\* daos.py lines 367-377: the rows whose id is in the request and whose
\* agenda is this one are as many as the request's entries.
all_items_belong(item_ids, agenda_id) ==
    Cardinality({ i \in DOMAIN agenda_items :
                    /\ \E k \in DOMAIN item_ids : item_ids[k] = i
                    /\ agenda_items[i].agenda_id = agenda_id })
        = Len(item_ids)

\* daos.py lines 380-385: one UPDATE ... WHERE id = item_id per entry, in
\* the order of the request.
apply_reorder(rows, item_orders) ==
    [ i \in DOMAIN rows |->
        LET ks == { k \in DOMAIN item_orders : item_orders[k].item_id = i } IN
        IF ks = {} THEN rows[i]
        ELSE LET last == CHOOSE k \in ks : \A j \in ks : j <= k IN
             [rows[i] EXCEPT !.display_order = item_orders[last].display_order] ]

\* services.py lines 441-478 with daos.py lines 349-392.
reorder_agenda_items(layer, header, user_id, event_id, item_orders) ==
    /\ IF ~validate_ownership(events, event_id, user_id)
       THEN /\ ev_last' = EvCall(layer, header, "reorder_agenda_items", user_id,
                                 event_id, IdsOf(item_orders), 403,
                                 "You don't have permission to access this event.")
            /\ UNCHANGED << users, events, agendas, agenda_items >>
       ELSE IF agenda_get_one(event_id, user_id) = {}
       THEN /\ ev_last' = EvCall(layer, header, "reorder_agenda_items", user_id,
                                 event_id, IdsOf(item_orders), 400,
                                 "Some agenda items don't belong to the specified agenda or agenda not found.")
            /\ UNCHANGED << users, events, agendas, agenda_items >>
       ELSE \E g \in agenda_get_one(event_id, user_id) :
            IF ~all_items_belong(IdsOf(item_orders), g)
            THEN /\ ev_last' = EvCall(layer, header, "reorder_agenda_items",
                                      user_id, event_id, IdsOf(item_orders), 400,
                                      "Some agenda items don't belong to the specified agenda or agenda not found.")
                 /\ UNCHANGED << users, events, agendas, agenda_items >>
            ELSE \E at \in StorageErrors \ {"refresh"} :
                 Commit(EvCall(layer, header, "reorder_agenda_items",
                               user_id, event_id, IdsOf(item_orders), 200, ""),
                        [Tables EXCEPT !.agenda_items =
                            apply_reorder(agenda_items, item_orders)],
                        at)
    /\ UNCHANGED << tenant_vars, contact_rows >>

\* ------------------------------------------------------------ the routes
\* Authorization headers: none, "Bearer wrong_user_id", "Bearer <uuid>",
\* "<uuid>" and "Bearer <id>" for the ids that generate_user_id gives
\* (utils/nanoid.py lines 6-20: 12 characters, so none is a UUID).
HeaderValues ==
    { NoHeader,
      [present |-> TRUE, value |-> <<"Bearer ", OtherText>>],
      [present |-> TRUE, value |-> <<"Bearer ", UuidText>>],
      [present |-> TRUE, value |-> <<UuidText>>] }
    \cup { [present |-> TRUE, value |-> <<"Bearer ", u>>] : u \in UserIds }

\* routes.py lines 21-22: the function the routes name in Depends(); it
\* replaces the get_user_id imported on line 13, takes no header and
\* returns the literal.
routes_get_user_id(header) == "4rOq4dpioFJq"

\* security.py lines 11-38: a required header (422 from the framework when
\* it is absent), 401 when it is empty, "Bearer " removed, 401 unless the
\* rest is a UUID.
security_get_user_id(header) ==
    LET token == SelectSeq(header.value, LAMBDA part : part # "Bearer ") IN
    IF ~header.present
    THEN [status |-> 422, user_id |-> "", detail |-> "Field required"]
    ELSE IF header.value = << >>
    THEN [status |-> 401, user_id |-> "",
          detail |-> "Authorization header is required"]
    ELSE IF Len(token) # 1 \/ token[1] \notin UuidTexts
    THEN [status |-> 401, user_id |-> "",
          detail |-> "Invalid token format. Must be a valid UUID."]
    ELSE [status |-> 200, user_id |-> token[1], detail |-> ""]

\* security.py lines 51-69: get_user_id, then 401 unless a user with that
\* id is stored.
get_current_user(header) ==
    LET auth == security_get_user_id(header) IN
    IF auth.status # 200 THEN auth
    ELSE IF auth.user_id \notin DOMAIN users
    THEN [status |-> 401, user_id |-> "",
          detail |-> "User not found. Please register first."]
    ELSE auth

\* routes.py lines 63-80: GET /events, user_id: str = Depends(get_user_id).
route_get_events(header) ==
    get_events("route", header, routes_get_user_id(header))

\* routes.py lines 83-92: POST /events, user_id: str = Depends(get_user_id).
route_create_event(header) ==
    create_event("route", header, routes_get_user_id(header))

\* routes.py lines 246-254: GET /users/profile,
\* user_id: str = Depends(get_current_user).
route_get_user_profile(header) ==
    LET auth == get_current_user(header) IN
    IF auth.status # 200
    THEN /\ Answer("route", header, "none", "", "", auth.status, auth.detail)
         /\ UNCHANGED << tenant_vars, contact_rows >>
    ELSE get_user("route", header, auth.user_id)

\* routes.py lines 257-266: PUT /users/profile,
\* user_id: str = Depends(get_current_user).
route_update_user_profile(header, user_data) ==
    LET auth == get_current_user(header) IN
    IF auth.status # 200
    THEN /\ Answer("route", header, "none", "", "", auth.status, auth.detail)
         /\ UNCHANGED << tenant_vars, contact_rows >>
    ELSE update_user("route", header, auth.user_id, user_data)

\* The answer of the last call has been returned to the caller.
EvIdle == ev_last = NoEventsCall

\* The answer goes back to the caller; the service handles one call at a
\* time.
EvReturn ==
    /\ ev_last # NoEventsCall
    /\ ev_last' = NoEventsCall
    /\ UNCHANGED << users, events, agendas, agenda_items, tenant_vars,
                    contact_rows >>

EventsNext ==
    \/ EvIdle /\ \E email \in UserEmails : create_user("service", NoHeader, email)
    \/ EvIdle /\ \E u \in UserIds : get_user("service", NoHeader, u)
    \/ EvIdle /\ \E u \in UserIds : update_user("service", NoHeader, u, NoUserUpdate)
    \/ EvIdle /\ \E u \in UserIds, e \in EventIds : get_event("service", NoHeader, u, e)
    \/ EvIdle /\ \E u \in UserIds : get_events("service", NoHeader, u)
    \/ EvIdle /\ \E u \in UserIds : create_event("service", NoHeader, u)
    \/ EvIdle /\ \E u \in UserIds, e \in EventIds :
          update_event("service", NoHeader, u, e, NoEventUpdate)
    \/ EvIdle /\ \E u \in UserIds, e \in EventIds : delete_event("service", NoHeader, u, e)
    \/ EvIdle /\ \E u \in UserIds, e \in EventIds : get_agenda("service", NoHeader, u, e)
    \/ EvIdle /\ \E u \in UserIds, e \in EventIds : create_agenda("service", NoHeader, u, e)
    \/ EvIdle /\ \E u \in UserIds, e \in EventIds :
          update_agenda("service", NoHeader, u, e, NoAgendaUpdate)
    \/ EvIdle /\ \E u \in UserIds, e \in EventIds : delete_agenda("service", NoHeader, u, e)
    \/ EvIdle /\ \E u \in UserIds, e \in EventIds, r \in CreateRequests :
          create_agenda_item("service", NoHeader, u, e,
                             r.start_time, r.end_time, r.display_order)
    \/ EvIdle /\ \E u \in UserIds, e \in EventIds, i \in ItemIds, r \in UpdateRequests :
          update_agenda_item("service", NoHeader, u, e, i,
                             r.start_time, r.end_time, r.display_order)
    \/ EvIdle /\ \E u \in UserIds, e \in EventIds, i \in ItemIds :
          delete_agenda_item("service", NoHeader, u, e, i)
    \/ EvIdle /\ \E u \in UserIds, e \in EventIds, item_orders \in ReorderLists :
          reorder_agenda_items("service", NoHeader, u, e, item_orders)
    \/ EvIdle /\ \E h \in HeaderValues : route_get_events(h)
    \/ EvIdle /\ \E h \in HeaderValues : route_create_event(h)
    \/ EvIdle /\ \E h \in HeaderValues : route_get_user_profile(h)
    \/ EvIdle /\ \E h \in HeaderValues : route_update_user_profile(h, NoUserUpdate)
    \/ EvReturn

EventsSpec == Init /\ [][EventsNext]_vars

\* ------------------------------------------------------ creates and updates
\* The calls that create and update rows, the updates with every body. To
\* keep the rows few, user "u1" makes the calls, the agenda and the items are
\* those of event "e1", the items are created without end_time and
\* display_order, and the updates name user "u1", event "e1", its agenda and
\* item "i1".
PatchNext ==
    \/ EvIdle /\ \E email \in UserEmails : create_user("service", NoHeader, email)
    \/ EvIdle /\ \E user_data \in UserUpdates :
          update_user("service", NoHeader, "u1", user_data)
    \/ EvIdle /\ create_event("service", NoHeader, "u1")
    \/ EvIdle /\ \E event_data \in EventUpdates :
          update_event("service", NoHeader, "u1", "e1", event_data)
    \/ EvIdle /\ create_agenda("service", NoHeader, "u1", "e1")
    \/ EvIdle /\ \E agenda_data \in AgendaUpdates :
          update_agenda("service", NoHeader, "u1", "e1", agenda_data)
    \/ EvIdle /\ \E start_time \in StartTimes :
          create_agenda_item("service", NoHeader, "u1", "e1", start_time,
                             NoTime, NoOrder)
    \/ EvIdle /\ \E r \in UpdateRequests :
          update_agenda_item("service", NoHeader, "u1", "e1", "i1",
                             r.start_time, r.end_time, r.display_order)
    \/ EvReturn

PatchSpec == Init /\ [][PatchNext]_vars

\* ------------------------------------------- create_agenda, two at a time
\* POST /events/{event_id}/agenda handled by the workers of the server, a
\* request at a time each: the statements of AgendaLogic.create_agenda and
\* AgendaQuery.create are steps, and the steps of two requests interleave.
\* Users and events are created by whole calls.

\* What a step of a create_agenda request leaves alone.
worker_rest ==
    << registry, storage, ev_storage, counters, session, obs, overlapped >>

\* The request arrives with the caller's id and the event's id.
CreateAgendaReceive(p) ==
    /\ pc[p] = "idle"
    /\ requests_started < MaxRequests
    /\ requests_started' = requests_started + 1
    /\ \E u \in UserIds, e \in EventIds :
          req' = [req EXCEPT ![p] =
                    [service |-> "events", op |-> "create_agenda",
                     tenant_id |-> << >>, recreate |-> FALSE,
                     user_id |-> u, event_id |-> e]]
    /\ pc' = [pc EXCEPT ![p] = "ca_validate"]
    /\ result' = [result EXCEPT ![p] = 0]
    /\ UNCHANGED << worker_rest, contact_rows, events_rows >>

\* services.py lines 226-229: validate_ownership, 404 when it fails.
CreateAgendaValidate(p) ==
    /\ pc[p] = "ca_validate"
    /\ IF ~validate_ownership(events, req[p].event_id, req[p].user_id)
       THEN /\ pc' = [pc EXCEPT ![p] = "done"]
            /\ result' = [result EXCEPT ![p] = 404]
       ELSE /\ pc' = [pc EXCEPT ![p] = "ca_existing"]
            /\ UNCHANGED result
    /\ UNCHANGED << worker_rest, req, requests_started, contact_rows,
                    events_rows >>

\* services.py lines 231-234: the agenda is looked up, 409 when there is one.
CreateAgendaExisting(p) ==
    /\ pc[p] = "ca_existing"
    /\ IF agenda_exists(req[p].event_id, req[p].user_id)
       THEN /\ pc' = [pc EXCEPT ![p] = "done"]
            /\ result' = [result EXCEPT ![p] = 409]
       ELSE /\ pc' = [pc EXCEPT ![p] = "ca_insert"]
            /\ UNCHANGED result
    /\ UNCHANGED << worker_rest, req, requests_started, contact_rows,
                    events_rows >>

\* services.py lines 236-250 with daos.py lines 191-215: the event is looked
\* up again (404 when it is gone), then the row is added and committed.
CreateAgendaInsert(p) ==
    /\ pc[p] = "ca_insert"
    /\ IF ~event_get_one(events, req[p].event_id, req[p].user_id)
       THEN /\ result' = [result EXCEPT ![p] = 404]
            /\ UNCHANGED agendas
       ELSE \E id \in AgendaIds \ DOMAIN agendas, at \in StorageErrors :
            /\ agendas' = StoredAfter(agendas,
                              (id :> [event_id |-> req[p].event_id,
                                      title |-> "Program dogadjaja",
                                      description |-> None]) @@ agendas,
                              at)
            /\ result' = [result EXCEPT ![p] = IF at = "none" THEN 201 ELSE 500]
    /\ pc' = [pc EXCEPT ![p] = "done"]
    /\ UNCHANGED << worker_rest, req, requests_started, contact_rows, users,
                    events, agenda_items, ev_last >>

\* The response leaves the worker.
CreateAgendaRespond(p) ==
    /\ pc[p] = "done"
    /\ pc' = [pc EXCEPT ![p] = "idle"]
    /\ req' = [req EXCEPT ![p] = NoRequest]
    /\ result' = [result EXCEPT ![p] = 0]
    /\ UNCHANGED << worker_rest, requests_started, contact_rows, events_rows >>

AgendaRaceNext ==
    \/ EvIdle /\ \E email \in UserEmails : create_user("service", NoHeader, email)
    \/ EvIdle /\ \E u \in UserIds : create_event("service", NoHeader, u)
    \/ EvReturn
    \/ \E p \in Workers : CreateAgendaReceive(p)
    \/ \E p \in Workers : CreateAgendaValidate(p)
    \/ \E p \in Workers : CreateAgendaExisting(p)
    \/ \E p \in Workers : CreateAgendaInsert(p)
    \/ \E p \in Workers : CreateAgendaRespond(p)

AgendaRaceSpec == Init /\ [][AgendaRaceNext]_vars

\* ------------------------------------------------- the two services together
\* The contact service and the events service share no table, so a run of
\* the two is a run of each: the calls of one are followed while the other
\* has handled none.
ContactAtRest == contacts = << >> /\ contact_last = NoContactCall
EventsAtRest ==
    /\ users = << >> /\ events = << >> /\ agendas = << >>
    /\ agenda_items = << >> /\ ev_last = NoEventsCall

ServicesNext ==
    \/ EventsAtRest /\ ContactNext
    \/ ContactAtRest /\ EventsNext

ServicesSpec == Init /\ [][ServicesNext]_vars

\* ------------------------------------------------------------ properties
Quiescent == \A p \in Workers : pc[p] = "idle"

\* Worker p takes the step.
StepOf(p) == pc'[p] # pc[p]

\* Worker p has finished a contact request of the given kind.
Finished(p, op) ==
    /\ pc[p] = "done"
    /\ req[p].service = "contact"
    /\ req[p].op = op

\* C1: without any eviction by recreate, at most one connection factory is
\* ever constructed (and stored in the cache) for a tenant, also when several
\* first requests for the tenant are handled at the same time.
C1_OneFactoryPerTenant ==
    \A n \in DbNames : evictions[n] = 0 => engines_created[n] <= 1

\* C2: a get_db call that starts with the tenant in initialized_tenants runs
\* no schema-creation and no table-creation statement, whether it takes the
\* fast path or rebuilds the factory; and in a run without overlapping
\* requests table creation inside get_db completes at most once per tenant.
C2_NoCreationOnceInitialized ==
    /\ \A p \in Workers : obs[p].init_at_start => obs[p].ddl = 0
    /\ ~overlapped => \A n \in DbNames : tables_created[n] <= 1

\* C2 as stated: in a run without overlapping requests the schema-creation
\* statement of get_db is executed at most once per tenant.
C2_CreationRunsAtMostOnce ==
    /\ \A p \in Workers : obs[p].init_at_start => obs[p].ddl = 0
    /\ ~overlapped => \A n \in DbNames : ddl_runs[n] <= 1

\* C2 witness: a get_db call for an initialised tenant whose factory had been
\* evicted has rebuilt the factory and reached the handler.
C2_Witness ==
    \E p \in Workers :
        /\ pc[p] = "handler"
        /\ obs[p].init_at_start
        /\ obs[p].built = 1

\* C3: when no request is in flight (and none ever overlapped), a database
\* name is in initialized_tenants exactly when the tenant's database, schema
\* and tables exist.
C3_InitializedIffTablesExist ==
    (Quiescent /\ ~overlapped) =>
        \A n \in DbNames :
            n \in initialized_tenants
                <=> (db_exists[n] /\ schema_exists[n] /\ tables_exist[n])

\* C3 check of the converse alone: whenever no request is in flight, a
\* tenant whose database, schema and tables exist is in initialized_tenants.
C3_TablesExistImpliesInitialized ==
    Quiescent =>
        \A n \in DbNames :
            (db_exists[n] /\ schema_exists[n] /\ tables_exist[n])
                => n \in initialized_tenants

\* Worker p has finished a successful recreate of its tenant.
RecreateSucceeded(p) == Finished(p, "recreate") /\ result[p] = 200

\* C4: after a successful recreate the tenant is in initialized_tenants; when
\* no other request overlapped, its tables exist and are empty and the cache
\* holds no factory for it (recreate evicts and does not register one).
C4_RecreateLeavesSchemaNoFactory ==
    \A p \in Workers :
        RecreateSucceeded(p) =>
            /\ Name(p) \in initialized_tenants
            /\ ~overlapped =>
                  /\ tables_exist[Name(p)]
                  /\ ~has_rows[Name(p)]
                  /\ Name(p) \notin DOMAIN tenant_sessions_postgres

\* C4 as stated: after a successful recreate (no other request overlapping)
\* the tenant is initialised, its tables exist and are empty, and the cache
\* holds a factory for it again.
C4_RecreateLeavesFactoryCached ==
    \A p \in Workers :
        (RecreateSucceeded(p) /\ ~overlapped) =>
            /\ Name(p) \in initialized_tenants
            /\ tables_exist[Name(p)]
            /\ ~has_rows[Name(p)]
            /\ Name(p) \in DOMAIN tenant_sessions_postgres

\* C4 witness: a recreate that evicted a cached factory has succeeded.
C4_Witness ==
    \E p \in Workers :
        /\ RecreateSucceeded(p)
        /\ ~overlapped
        /\ evictions[Name(p)] = 1
        /\ engines_created[Name(p)] = 1

\* C5: a step that removes a database name from the cache or from
\* initialized_tenants is a step of a worker handling recreate; get_db never
\* removes one, whether it succeeds or fails part-way.
C5_OnlyRecreateRemoves ==
    [][ \A n \in DbNames :
          \/ /\ n \in DOMAIN tenant_sessions_postgres
                   => n \in DOMAIN tenant_sessions_postgres'
             /\ n \in initialized_tenants => n \in initialized_tenants'
          \/ \E p \in Workers :
                /\ StepOf(p)
                /\ req[p].op = "recreate"
                /\ Name(p) = n
                /\ n \in initialized_tenants => n \in initialized_tenants'
      ]_vars

\* C5 witness: a get_db call has failed after storing the factory, and the
\* factory is still cached although the tenant is not initialised.
C5_Witness ==
    \E p \in Workers :
        /\ Finished(p, "crud")
        /\ result[p] = 500
        /\ obs[p].built = 1
        /\ Name(p) \in DOMAIN tenant_sessions_postgres
        /\ Name(p) \notin initialized_tenants

\* The request of worker p is a recreate-tables call without the flag.
WithoutFlag(p) == req[p].op = "recreate" /\ ~req[p].recreate

\* C6: every step of a recreate-tables request without the flag leaves the
\* cache, initialized_tenants, both services' storage and every session
\* unchanged, and the flag test ends the request with status 400.
C6_RecreateWithoutFlagNoEffect ==
    [][ \A p \in Workers :
          (WithoutFlag(p) /\ StepOf(p) /\ pc[p] # "done") =>
             /\ UNCHANGED << registry, storage, ev_storage, counters, session >>
             /\ pc[p] \in {"rc_flag", "ev_recreate"}
                   => (pc'[p] = "done" /\ result'[p] = 400)
      ]_vars

\* C6 witness: a contact recreate without the flag was answered 400 while
\* the tenant had a cached factory and stored rows.
C6_Witness ==
    \E p \in Workers :
        /\ Finished(p, "recreate")
        /\ WithoutFlag(p)
        /\ result[p] = 400
        /\ Name(p) \in DOMAIN tenant_sessions_postgres
        /\ has_rows[Name(p)]

\* The database the request of worker p has to be served from.
DbOfRequest(p) == IF req[p].service = "contact" THEN Name(p) ELSE EventsDb

OnlyWordCharacters(id) ==
    /\ id # << >>
    /\ \A i \in DOMAIN id : id[i] \in {"a", "b", "d", "1", "_"}

\* C8: every name in the cache, in initialized_tenants or created on the
\* server derives from an identifier of word characters only, and a request
\* to a route that takes the tenant identifier (every route but the
\* health-check) whose identifier is not of that form is past validation
\* only as a finished request with status 422.
C8_OnlyValidatedKeys ==
    /\ \A n \in DbNames :
          (\/ n \in DOMAIN tenant_sessions_postgres
           \/ n \in initialized_tenants
           \/ db_exists[n])
             => \E id \in RawIds : n = tenant_db_name(id) /\ OnlyWordCharacters(id)
    /\ \A p \in Workers :
          ( /\ req[p].service = "contact"
            /\ req[p].op # "health"
            /\ ~OnlyWordCharacters(req[p].tenant_id) ) =>
             \/ pc[p] = "sanitize"
             \/ pc[p] = "done" /\ result[p] = 422

\* C8 witness: a request with an invalid identifier was rejected with 422
\* while the cache held a factory.
C8_Witness ==
    \E p \in Workers :
        /\ pc[p] = "done"
        /\ req[p].service = "contact"
        /\ ~OnlyWordCharacters(req[p].tenant_id)
        /\ result[p] = 422
        /\ DOMAIN tenant_sessions_postgres # {}

\* C9: a get_db call whose CREATE DATABASE failed goes on to build and store
\* the factory; if the call then fails, it fails at a later step (the
\* connection of line 70, the table creation, the session), never at the
\* create-database statement.
C9_CreateDatabaseErrorTolerated ==
    \A p \in Workers :
        obs[p].create_failed =>
            /\ pc[p] = "db_build" \/ obs[p].built = 1
            /\ obs[p].stage \in {"", "connect", "create_all", "open_session"}
            /\ (pc[p] = "done" /\ obs[p].stage # "") => result[p] = 500

\* C9 witness: CREATE DATABASE failed, the factory was stored anyway, and the
\* request failed at the connection to the tenant's database.
C9_Witness ==
    \E p \in Workers :
        /\ pc[p] = "done"
        /\ obs[p].create_failed
        /\ obs[p].stage = "connect"
        /\ result[p] = 500
        /\ Name(p) \in DOMAIN tenant_sessions_postgres

\* C10: a get_db call that finds the factory in the cache runs no
\* control-database check, no CREATE DATABASE, builds no factory and creates
\* no schema or table; its step to the handler changes only its own session.
C10_FastPathSkipsControlCheck ==
    /\ [](\A p \in Workers :
            obs[p].cached_at_lookup =>
               /\ obs[p].db_checks = 0
               /\ obs[p].create_stmts = 0
               /\ obs[p].built = 0
               /\ obs[p].ddl = 0)
    /\ [][ \A p \in Workers :
             (obs[p].cached_at_lookup /\ StepOf(p) /\ pc[p] = "db_open") =>
                UNCHANGED << registry, storage, ev_storage, counters >>
         ]_vars

\* C10 witness: a request served on the fast path has its session.
C10_Witness ==
    \E p \in Workers :
        /\ pc[p] = "handler"
        /\ obs[p].cached_at_lookup
        /\ session[p].state = "open"

\* Worker p has finished a recreate with the flag in which the drop or the
\* creation of the tables raised a storage error.
RecreateStorageError(p) ==
    /\ Finished(p, "recreate")
    /\ req[p].recreate
    /\ obs[p].stage \in {"drop_all", "create_all"}

\* C11: a recreate with the flag that hits a storage error ends with HTTP
\* 500 (neither 400 nor 200), and the exception handed to the service is the
\* wrapping exception whose message names the tenant of the request.
C11_StorageErrorWrappedAs500 ==
    \A p \in Workers :
        RecreateStorageError(p) =>
            /\ result[p] = 500
            /\ obs[p].error.type = "Exception"
            /\ obs[p].error.cause = "SQLAlchemyError"
            /\ obs[p].error.prefix = "Database error for tenant"
            /\ obs[p].error.tenant_id = req[p].tenant_id
            /\ req[p].tenant_id # <<>>

\* C11 witness: drop_all raised for a tenant whose database exists, in a
\* recreate with the flag.
C11_Witness ==
    \E p \in Workers :
        /\ RecreateStorageError(p)
        /\ obs[p].stage = "drop_all"
        /\ db_exists[Name(p)]
        /\ result[p] = 500

\* The last call was a create_contact that supplied a field equal to that
\* field of a contact stored at the time.
CreateCollided ==
    /\ contact_last.op = "create"
    /\ contact_last.dup_email \/ contact_last.dup_phone

\* C12: create_contact with neither email nor phone is answered 422, and
\* create_contact whose email or whose phone equals that of a stored contact
\* is answered 409; neither stores a row.
C12_DuplicateEmailOrPhoneRejected ==
    /\ (contact_last.op = "create"
          /\ ~Truthy(contact_last.email) /\ ~Truthy(contact_last.phone))
         => contact_last.status = 422 /\ ~contact_last.stored
    /\ CreateCollided => contact_last.status = 409 /\ ~contact_last.stored

\* C13: every stored agenda item that has an end_time has it strictly after
\* its start_time.
C13_EndAfterStart ==
    \A i \in DOMAIN agenda_items :
        agenda_items[i].end_time # NoTime
            => agenda_items[i].end_time > agenda_items[i].start_time

EvRows == << users, events, agendas, agenda_items >>

\* C14: a reorder by the owner whose list names an id that is not an item of
\* the event's agenda is answered 400 and leaves every agenda item, its
\* display_order included, as it was.
C14_ReorderAllOrNothing ==
    [][ (ev_last'.op = "reorder_agenda_items" /\ ev_last'.owner = "yes"
           /\ ev_last'.foreign # "none")
          => (ev_last'.status = 400 /\ agenda_items' = agenda_items) ]_vars

\* C14 witness: a reorder naming an item of the agenda together with an id
\* that is not one was answered 400.
C14_Witness ==
    /\ ev_last.op = "reorder_agenda_items"
    /\ ev_last.owner = "yes"
    /\ ev_last.foreign = "some"
    /\ ev_last.status = 400

AgendaOps == {"get_agenda", "create_agenda", "update_agenda", "delete_agenda",
              "create_agenda_item", "update_agenda_item", "delete_agenda_item",
              "reorder_agenda_items"}

\* C15: an agenda operation on an event that another user owns changes no
\* row and is answered 403, create_agenda 404.
C15_NonOwnerRejected ==
    [][ (ev_last'.op \in AgendaOps /\ ev_last'.owner = "no")
          => /\ UNCHANGED EvRows
             /\ ev_last'.status =
                   IF ev_last'.op = "create_agenda" THEN 404 ELSE 403 ]_vars

\* C15 as stated: every agenda operation on an event that another user owns
\* changes no row and is answered 403.
C15_NonOwnerAlways403 ==
    [][ (ev_last'.op \in AgendaOps /\ ev_last'.owner = "no")
          => (UNCHANGED EvRows /\ ev_last'.status = 403) ]_vars

\* C15 witness: while an agenda with an item is stored, a delete_agenda on
\* an event that another user owns was answered 403.
C15_Witness ==
    /\ agenda_items # << >>
    /\ ev_last.op = "delete_agenda"
    /\ ev_last.owner = "no"
    /\ ev_last.status = 403

\* No agenda without its event, no agenda item without its agenda.
NoOrphans ==
    /\ \A g \in DOMAIN agendas : agendas[g].event_id \in DOMAIN events
    /\ \A i \in DOMAIN agenda_items :
          agenda_items[i].agenda_id \in DOMAIN agendas

\* C16: no state holds an agenda whose event is gone or an item whose agenda
\* is gone; a successful delete_event leaves no agenda of the deleted event
\* and no item of such an agenda; a successful delete_agenda leaves no item
\* of the deleted agenda and leaves the events as they were.
C16_DeleteCascades ==
    /\ []NoOrphans
    /\ [][ /\ (ev_last'.op = "delete_event" /\ ev_last'.status = 200)
              => \E e \in DOMAIN events :
                   /\ DOMAIN events' = DOMAIN events \ {e}
                   /\ \A g \in DOMAIN agendas :
                         agendas[g].event_id = e =>
                           /\ g \notin DOMAIN agendas'
                           /\ \A i \in DOMAIN agenda_items' :
                                 agenda_items'[i].agenda_id # g
            /\ (ev_last'.op = "delete_agenda" /\ ev_last'.status = 204)
              => /\ events' = events
                 /\ \E g \in DOMAIN agendas :
                       /\ DOMAIN agendas' = DOMAIN agendas \ {g}
                       /\ \A i \in DOMAIN agenda_items' :
                             agenda_items'[i].agenda_id # g ]_vars

\* C16 witness: a delete_event has removed the event's agenda and two items
\* with it.
C16_Witness ==
    /\ ev_last.op = "delete_event"
    /\ ev_last.status = 200
    /\ ev_last.removed = 3

\* The agendas of an event.
AgendasOf(e) == { g \in DOMAIN agendas : agendas[g].event_id = e }

\* C17: a create_agenda that succeeds creates the first agenda of its event;
\* a create_agenda by the owner that does not succeed, the storage layer
\* raising nothing, is answered 409 and creates nothing; every event has at
\* most one agenda.
C17_OneAgendaPerEvent ==
    /\ [](\A e \in EventIds : Cardinality(AgendasOf(e)) <= 1)
    /\ [][ /\ (ev_last'.op = "create_agenda" /\ ev_last'.status = 201)
               => \E g \in DOMAIN agendas' \ DOMAIN agendas :
                     /\ AgendasOf(agendas'[g].event_id) = {}
                     /\ DOMAIN agendas' = DOMAIN agendas \cup {g}
            /\ (ev_last'.op = "create_agenda" /\ ev_last'.owner = "yes"
                   /\ ev_last'.storage_error = "none"
                   /\ ev_last'.status # 201)
               => /\ ev_last'.status = 409
                  /\ agendas # << >>
                  /\ UNCHANGED EvRows ]_vars

\* C17 witness: the owner's create_agenda was answered 409.
C17_Witness ==
    /\ ev_last.op = "create_agenda"
    /\ ev_last.owner = "yes"
    /\ ev_last.status = 409
    /\ agendas # << >>

\* C18: the owner of every stored event is a stored user; create_event for
\* a user id that is not stored is answered 404 with the message that ends
\* "not found. Please create user first." and stores nothing.
C18_EventOwnerExists ==
    /\ [](\A e \in DOMAIN events : events[e].owner_id \in DOMAIN users)
    /\ [][ (ev_last'.op = "create_event" /\ ~ev_last'.known)
             => /\ ev_last'.status = 404
                /\ ev_last'.detail = "not found. Please create user first."
                /\ UNCHANGED EvRows ]_vars

\* C18 witness: while some user is stored, a create_event for an id that is
\* not a stored user was answered 404.
C18_Witness ==
    /\ users # << >>
    /\ ev_last.op = "create_event"
    /\ ~ev_last.known
    /\ ev_last.status = 404

\* C19: a call made by a route for a request whose Authorization header is
\* missing or malformed is answered 401 or 422 and runs no operation of the
\* services.
C19_CallerFromHeader ==
    (ev_last.layer = "route" /\ ~ev_last.authorized)
        => (ev_last.status \in {401, 422} /\ ev_last.op = "none")

\* C20: a response to an exception that nothing in the route or service
\* handles is the middleware's 500 with its fixed detail, and no error
\* response of either service carries the text of an exception.
C20_NoExceptionTextInResponses ==
    \A p \in Workers :
        pc[p] = "done" =>
            /\ obs[p].outcome = "unexpected" =>
                  /\ result[p] = 500
                  /\ obs[p].body = [detail |-> "Internal server error", text |-> ""]
            /\ result[p] >= 400 => obs[p].body.text = ""

\* C21: when the storage layer raises in a statement or in the commit of a
\* write of a contact, user, event, agenda or agenda item or of a bulk
\* reorder, every stored row is as before the call and the call ends with
\* the error (500); when it raises in the refresh after the commit, the call
\* ends with the error as well.
C21_WriteErrorRolledBack ==
    [][ /\ ev_last'.storage_error = "write"
            => (UNCHANGED EvRows /\ ev_last'.status = 500)
        /\ ev_last'.storage_error = "refresh" => ev_last'.status = 500
        /\ contact_last'.storage_error = "write"
            => (UNCHANGED contacts /\ contact_last'.status = 500)
        /\ contact_last'.storage_error = "refresh"
            => contact_last'.status = 500 ]_vars

\* C21 as stated: wherever the storage layer raises during the write, every
\* stored row is as before the call and the call ends with the error.
C21_AnyErrorLeavesRows ==
    [][ /\ ev_last'.storage_error # "none"
            => (UNCHANGED EvRows /\ ev_last'.status = 500)
        /\ contact_last'.storage_error # "none"
            => (UNCHANGED contacts /\ contact_last'.status = 500) ]_vars

\* C21 witness: the storage layer raised in a bulk reorder of two items
\* before its commit, and the call ended with the error.
C21_Witness ==
    /\ ev_last.op = "reorder_agenda_items"
    /\ ev_last.storage_error = "write"
    /\ ev_last.status = 500
    /\ Cardinality(DOMAIN agenda_items) = 2

\* The display_order values of the items of an agenda.
OrdersOf(rows, g) ==
    { rows[j].display_order : j \in { k \in DOMAIN rows : rows[k].agenda_id = g } }

Patched(old, new, patch) ==
    \A f \in DOMAIN old :
        new[f] = IF f \in DOMAIN patch THEN patch[f] ELSE old[f]

\* The table has the same rows as before, row `id` patched and every other
\* row as it was.
OnlyRowPatched(old, new, id, patch) ==
    /\ id \in DOMAIN old
    /\ DOMAIN new = DOMAIN old
    /\ \A r \in DOMAIN old :
          IF r = id THEN Patched(old[r], new[r], patch) ELSE new[r] = old[r]

C24_SessionOnlyForInitialized ==
    \A p \in Workers :
        (pc[p] = "handler" /\ req[p].service = "contact")
            => Name(p) \in initialized_tenants

\* C25: when a request is about to read its tenant's entry of the cache on
\* line 80 of get_db, the entry is there.
C25_OpenSessionFindsFactory ==
    \A p \in Workers :
        pc[p] = "db_open" => Name(p) \in DOMAIN tenant_sessions_postgres

\* C26: a step of a health-check request of either service leaves the
\* databases, schemas, tables and rows of the contact tenants and the
\* tables and rows of the events database as they were.
C26_HealthCheckReadOnly ==
    [][ \A p \in Workers :
          (req[p].op = "health" /\ StepOf(p))
              => UNCHANGED << storage, ev_storage >> ]_vars

\* No two contacts of the table share a non-null email or a non-null phone.
UniqueContacts(rows) ==
    \A c, d \in DOMAIN rows :
        c # d => /\ Truthy(rows[c].email) => rows[c].email # rows[d].email
                 /\ Truthy(rows[c].phone) => rows[c].phone # rows[d].phone

\* C27: an update of a contact in a table where no two contacts share an
\* email or a phone leaves the table so: an update that would give the
\* contact the email or the phone of another contact stores nothing.
C27_UpdateKeepsContactsUnique ==
    [][ (contact_last'.op = "update" /\ UniqueContacts(contacts))
          => UniqueContacts(contacts') ]_vars

\* C28: with create_agenda requests handled by two workers at a time, every
\* event has at most one agenda.
C28_OneAgendaUnderConcurrency ==
    \A e \in EventIds : Cardinality(AgendasOf(e)) <= 1

\* The operations on events, agendas and agenda items.
EventOps ==
    {"get_event", "get_events", "create_event", "update_event", "delete_event",
     "get_agenda", "create_agenda", "update_agenda", "delete_agenda",
     "create_agenda_item", "update_agenda_item", "delete_agenda_item",
     "reorder_agenda_items"}

\* The events that `user_id` does not own, their agendas and their items.
OthersRows(user_id) ==
    EventRows({ e \in DOMAIN events : events[e].owner_id # user_id })

\* The rows `ids` of a table are after the step what they were before it.
Kept(before, after, ids) ==
    \A r \in ids \cap DOMAIN before :
        r \in DOMAIN after /\ after[r] = before[r]

\* C29: an event, agenda or item operation called with user id U returns no
\* event that another user owns, no agenda and no item of such an event, and
\* leaves each of these rows as it was.
C29_OtherOwnersRowsUntouched ==
    [][(ev_last' # NoEventsCall /\ ev_last'.op \in EventOps) =>
         LET theirs == OthersRows(ev_last'.user_id) IN
         /\ ev_last'.returned \cap theirs = {}
         /\ Kept(events, events', theirs)
         /\ Kept(agendas, agendas', theirs)
         /\ Kept(agenda_items, agenda_items', theirs)]_vars

\* C29 witness: get_events has returned the caller's event while another
\* user's event with an agenda and an item is stored.
C29_Witness ==
    /\ ev_last.op = "get_events"
    /\ ev_last.status = 200
    /\ ev_last.returned \cap DOMAIN events # {}
    /\ \E i \in OthersRows(ev_last.user_id) : i \in DOMAIN agenda_items

\* C30: a GET or PUT /users/profile whose Authorization header is "Bearer "
\* followed by the id of a stored user is answered 200, unless the storage
\* failed.
C30_CreatedUserIsAccepted ==
    ( /\ ev_last.layer = "route"
      /\ ev_last.op \in {"none", "get_user", "update_user"}
      /\ ev_last.token \in DOMAIN users
      /\ ev_last.storage_error = "none" )
        => ev_last.status = 200

====
